---- MODULE Spec2Model ----
(***************************************************************************)
(* A model of the twilight cache: the in-memory backend (its concurrent    *)
(* maps, the entity-type gate and the per-channel message retention), the  *)
(* repository contract and the event-to-mutation engine of Cache::process. *)
(*                                                                         *)
(* Spec        the repository layer of the in-memory backend, every entity *)
(*             type, one repository call per step                          *)
(* SpecEngine  Cache::process on the in-memory backend, one event per step *)
(*             (the guild, its children, members and users)                *)
(* SpecMember  the member events on the in-memory backend                  *)
(* SpecChannel the channel events of every kind, the patches, the removals *)
(* SpecMessage the message events and the attachments                      *)
(* SpecFail    GuildCreate on a backend whose writes may fail, one future  *)
(*             completion per step, event after event                      *)
(* SpecCreate  one GuildCreate with any children on such a backend         *)
(* SpecBulk    the default upsert_bulk and remove_bulk on such a backend   *)
(* SpecStream  the relation helpers of utils.rs on a backend whose reads   *)
(*             may fail, one call or one poll of the stream per step       *)
(* SpecDispatch the dispatch of Event::process, the ignored kinds included *)
(* SpecDelete  GuildDelete and MessageDelete on a backend whose reads and  *)
(*             writes may fail, one future completion per step             *)
(* SpecRetention    the message repository under every retention bound     *)
(* SpecSameChannel  the same, the messages keeping their channel           *)
(* SpecRace    two handlers that read and then write the same entity, one  *)
(*             repository call per step                                    *)
(* SpecOrder   one GuildCreate or MemberChunk whose writes complete in any *)
(*             order                                                       *)
(* SpecUpsert  Repository::upsert on the in-memory backend, the gate and the*)
(*             insert as two steps                                         *)
(* SpecChannelMessage  the channels of a message, its pins, create and delete*)
(* SpecRelation        the relation accessors, default and in-memory       *)
(* SpecTerminate       the handlers that loop over streams, one await per  *)
(*                     step, the awaited handler scheduled fairly          *)
(***************************************************************************)
EXTENDS Integers, Sequences, FiniteSets, TLC

VARIABLES
    backend,    \* InMemoryBackendRef: one map per entity type, the indexes
    config,     \* Config: entity_types and message_cache_size
    last,       \* the repository call or event processed last
    created,    \* the messages created so far, while only that happened
    futures,    \* the writes of the event in flight, where they are steps;
                \* the ids a stream has still to read
    result,     \* what process, or the call, resolved to or has produced
    lazy,       \* whether a write runs when polled or when called
    before,     \* the backend as it was when the event was issued
    event       \* the event in flight, where a property speaks of its payload

vars == <<backend, config, last, created, futures, result, lazy, before, event>>

(***************************************************************************)
(* Bounds of the model.                                                    *)
(***************************************************************************)
MaxId == 2
MaxUserId == 1
MaxMessageId == 3
MaxCacheSize == 2
MaxStored == 2

\* No event in flight, none resolved.
NoResult == [kind |-> "none", at |-> 0]

NoEvent == [name |-> "none"]

(***************************************************************************)
(* Option<T>: None is the empty set, Some(x) the singleton.                *)
(***************************************************************************)
None == {}
Some(x) == {x}

GuildIds == 1..MaxId
ChannelIds == 1..MaxId
RoleIds == 1..MaxId
EmojiIds == 1..MaxId
AttachmentIds == 1..MaxId
UserIds == 1..MaxUserId
MessageIds == 1..MaxMessageId

(***************************************************************************)
(* config.rs: the EntityType flags and the configuration.                  *)
(***************************************************************************)
EntityType ==
    {"ATTACHMENT", "CHANNEL_CATEGORY", "CHANNEL_GROUP", "CHANNEL_PRIVATE",
     "CHANNEL_TEXT", "CHANNEL_VOICE", "EMOJI", "GUILD", "MEMBER", "MESSAGE",
     "PRESENCE", "ROLE", "USER", "USER_CURRENT", "VOICE_STATE"}

\* The types kept in a DashMap (EntityExt); USER_CURRENT is the mutex slot.
MapTypes == EntityType \ {"USER_CURRENT"}

\* The configurations explored: every type enabled with each retention
\* bound, the pair of the builder's example, and its complement.
Configs ==
    [entity_types : {EntityType}, message_cache_size : 0..MaxCacheSize]
    \cup [entity_types : {{"MESSAGE", "USER"}, EntityType \ {"MESSAGE", "USER"}},
          message_cache_size : {MaxCacheSize}]

\* EntityExt::map: the backend field that holds the entities of a type.
MapOf(T) ==
    CASE T = "ATTACHMENT" -> "attachments"
      [] T = "CHANNEL_CATEGORY" -> "channels_category"
      [] T = "CHANNEL_GROUP" -> "groups"
      [] T = "CHANNEL_PRIVATE" -> "channels_private"
      [] T = "CHANNEL_TEXT" -> "channels_text"
      [] T = "CHANNEL_VOICE" -> "channels_voice"
      [] T = "EMOJI" -> "emojis"
      [] T = "GUILD" -> "guilds"
      [] T = "MEMBER" -> "members"
      [] T = "MESSAGE" -> "messages"
      [] T = "PRESENCE" -> "presences"
      [] T = "ROLE" -> "roles"
      [] T = "USER" -> "users"
      [] T = "VOICE_STATE" -> "voice_states"

(***************************************************************************)
(* The entities.  Each record keeps the id, the foreign ids and the fields *)
(* the engine reads or patches.                                            *)
(***************************************************************************)
\* The member profiles explored: every combination the member patch tells
\* apart (a nickname or none, a boost date or none) with both flag values.
MemberProfiles ==
    {[nick |-> None, premium_since |-> None,
      deaf |-> FALSE, mute |-> FALSE, hoisted_role_id |-> None],
     [nick |-> Some("Bob"), premium_since |-> Some("t1"),
      deaf |-> TRUE, mute |-> FALSE, hoisted_role_id |-> Some(1)],
     [nick |-> Some("Bob"), premium_since |-> None,
      deaf |-> FALSE, mute |-> TRUE, hoisted_role_id |-> None]}

MemberEntities ==
    {[guild_id |-> g, user_id |-> u, nick |-> f.nick,
      premium_since |-> f.premium_since, joined_at |-> None, role_ids |-> <<>>,
      deaf |-> f.deaf, mute |-> f.mute, hoisted_role_id |-> f.hoisted_role_id] :
        g \in GuildIds, u \in UserIds, f \in MemberProfiles}

Entities(T) ==
    CASE T = "ATTACHMENT" -> [id : AttachmentIds, message_id : {1}]
      [] T = "CHANNEL_CATEGORY" -> [id : ChannelIds, guild_id : {Some(g) : g \in GuildIds}]
      [] T = "CHANNEL_GROUP" ->
            [id : ChannelIds, last_message_id : {None},
             last_pin_timestamp : {None}, recipient_ids : {<<1>>}]
      [] T = "CHANNEL_PRIVATE" ->
            [id : ChannelIds, last_message_id : {None},
             last_pin_timestamp : {None}, recipient_id : {Some(1)}]
      [] T = "CHANNEL_TEXT" ->
            [id : ChannelIds, guild_id : {Some(g) : g \in GuildIds},
             last_message_id : {None}, last_pin_timestamp : {None}]
      [] T = "CHANNEL_VOICE" -> [id : ChannelIds, guild_id : {Some(g) : g \in GuildIds}]
      [] T = "EMOJI" -> [id : EmojiIds, guild_id : GuildIds]
      [] T = "GUILD" -> [id : GuildIds, name : {"a"}, unavailable : BOOLEAN]
      [] T = "MEMBER" -> MemberEntities
      [] T = "MESSAGE" ->
            [id : MessageIds, channel_id : ChannelIds, content : {"x", "y"},
             attachments : {<<>>}]
      [] T = "PRESENCE" -> [guild_id : GuildIds, user_id : UserIds, status : {"online"}]
      [] T = "ROLE" -> [id : RoleIds, guild_id : GuildIds, name : {"r"}]
      [] T = "USER" -> [id : UserIds, name : {"u", "v"}]
      [] T = "USER_CURRENT" -> [id : UserIds, name : {"u", "v"}]
      [] T = "VOICE_STATE" -> [guild_id : GuildIds, user_id : UserIds, channel_id : {None}]

\* Entity::id: the guild-scoped entities are keyed by (guild id, user id).
Id(T, e) ==
    IF T \in {"MEMBER", "PRESENCE", "VOICE_STATE"}
    THEN <<e.guild_id, e.user_id>>
    ELSE e.id

Ids(T) == {Id(T, e) : e \in Entities(T)}

(***************************************************************************)
(* DashMap: a map is a function on the set of its keys.                    *)
(***************************************************************************)
EmptyMap == [k \in {} |-> None]
\* Variant of insert that is not atomic for the entry: over a stored value
\* it leaves one of the fields that differ as it was.
InsertMixes(m, k, v) ==
    [i \in DOMAIN m \cup {k} |->
        IF i # k THEN m[i]
        ELSE IF k \notin DOMAIN m THEN v
        ELSE LET diff == {f \in DOMAIN v : m[k][f] # v[f]}
             IN  IF diff = {} THEN v
                 ELSE [f \in DOMAIN v |->
                          IF f = (CHOOSE g \in diff : TRUE) THEN m[k][f] ELSE v[f]]]

Insert(m, k, v) == [i \in DOMAIN m \cup {k} |-> IF i = k THEN v ELSE m[i]]
Delete(m, k) == [i \in DOMAIN m \ {k} |-> m[i]]
Lookup(m, k) == IF k \in DOMAIN m THEN Some(m[k]) ELSE None
Values(m) == {m[k] : k \in DOMAIN m}

\* InMemoryBackendRef::default(): every map empty, no current user.
NewBackend ==
    [attachments |-> EmptyMap, channels_category |-> EmptyMap,
     channels_private |-> EmptyMap, channels_text |-> EmptyMap,
     channels_voice |-> EmptyMap, channel_messages |-> EmptyMap,
     emojis |-> EmptyMap, groups |-> EmptyMap, guilds |-> EmptyMap,
     guild_channels |-> EmptyMap, guild_emojis |-> EmptyMap,
     guild_members |-> EmptyMap, guild_presences |-> EmptyMap,
     guild_roles |-> EmptyMap, guild_voice_states |-> EmptyMap,
     members |-> EmptyMap, messages |-> EmptyMap, presences |-> EmptyMap,
     roles |-> EmptyMap, users |-> EmptyMap, user_current |-> None,
     user_guilds |-> EmptyMap, voice_states |-> EmptyMap]

\* The number of entities a backend holds.
Stored(b) ==
    Cardinality(DOMAIN b.attachments) + Cardinality(DOMAIN b.channels_category)
    + Cardinality(DOMAIN b.channels_private) + Cardinality(DOMAIN b.channels_text)
    + Cardinality(DOMAIN b.channels_voice) + Cardinality(DOMAIN b.emojis)
    + Cardinality(DOMAIN b.groups) + Cardinality(DOMAIN b.guilds)
    + Cardinality(DOMAIN b.members) + Cardinality(DOMAIN b.messages)
    + Cardinality(DOMAIN b.presences) + Cardinality(DOMAIN b.roles)
    + Cardinality(DOMAIN b.users) + Cardinality(DOMAIN b.voice_states)
    + Cardinality(b.user_current)

Enabled(T) == T \in config.entity_types

(***************************************************************************)
(* repository.rs: InMemoryRepository<E>, the repository of every type kept *)
(* in a map.                                                               *)
(***************************************************************************)
RepoGet(b, T, id) == Lookup(b[MapOf(T)], id)

RepoList(b, T) == Values(b[MapOf(T)])

RepoRemove(b, T, id) == [b EXCEPT ![MapOf(T)] = Delete(@, id)]

\* Variant of upsert that forgets the entity-type gate.
RepoUpsertUngated(b, T, e) == [b EXCEPT ![MapOf(T)] = Insert(@, Id(T, e), e)]

RepoUpsert(b, T, e) ==
    IF ~Enabled(T)
    THEN b
    ELSE [b EXCEPT ![MapOf(T)] = Insert(@, Id(T, e), e)]

(***************************************************************************)
(* repository.rs: the single-entity repository of the current user.        *)
(***************************************************************************)
CurrentUserGet(b) == b.user_current

CurrentUserRemove(b) == [b EXCEPT !.user_current = None]

CurrentUserUpsert(b, e) ==
    IF ~Enabled("USER_CURRENT")
    THEN b
    ELSE [b EXCEPT !.user_current = Some(e)]

(***************************************************************************)
(* repository/message.rs: the message repository and its retention.       *)
(***************************************************************************)
Lowest(S) == CHOOSE x \in S : \A y \in S : x <= y

\* channel_messages.entry(channel_id).or_default()
ChannelMessages(b, channel_id) ==
    IF channel_id \in DOMAIN b.channel_messages
    THEN b.channel_messages[channel_id]
    ELSE {}

\* Variant of the retention that evicts the highest id of the set.
insert_message_idEvictsHighest(b, channel_id, message_id) ==
    IF config.message_cache_size = 0
    THEN b
    ELSE LET channel_messages == ChannelMessages(b, channel_id) \cup {message_id}
         IN  IF Cardinality(channel_messages) < config.message_cache_size
             THEN [b EXCEPT !.channel_messages =
                                Insert(@, channel_id, channel_messages)]
             ELSE LET newest_message_id ==
                          CHOOSE x \in channel_messages :
                              \A y \in channel_messages : y <= x
                  IN  [b EXCEPT !.channel_messages =
                                    Insert(@, channel_id,
                                           channel_messages \ {newest_message_id}),
                                !.messages = Delete(@, newest_message_id)]

\* Variant of the retention without the test for a bound of zero.
insert_message_idZeroBounds(b, channel_id, message_id) ==
    LET channel_messages == ChannelMessages(b, channel_id) \cup {message_id}
    IN  IF Cardinality(channel_messages) < config.message_cache_size
        THEN [b EXCEPT !.channel_messages =
                           Insert(@, channel_id, channel_messages)]
        ELSE LET oldest_message_id == Lowest(channel_messages)
             IN  [b EXCEPT !.channel_messages =
                               Insert(@, channel_id,
                                      channel_messages \ {oldest_message_id}),
                           !.messages = Delete(@, oldest_message_id)]

\* Variant of the retention that removes the attachments of the message it
\* evicts.
insert_message_idEvictsAttachments(b, channel_id, message_id) ==
    IF config.message_cache_size = 0
    THEN b
    ELSE LET channel_messages == ChannelMessages(b, channel_id) \cup {message_id}
         IN  IF Cardinality(channel_messages) < config.message_cache_size
             THEN [b EXCEPT !.channel_messages =
                                Insert(@, channel_id, channel_messages)]
             ELSE LET oldest_message_id == Lowest(channel_messages)
                      listed ==
                          IF oldest_message_id \in DOMAIN b.messages
                          THEN {b.messages[oldest_message_id].attachments[k] :
                                  k \in 1..Len(b.messages[oldest_message_id].attachments)}
                          ELSE {}
                  IN  [b EXCEPT !.channel_messages =
                                    Insert(@, channel_id,
                                           channel_messages \ {oldest_message_id}),
                                !.messages = Delete(@, oldest_message_id),
                                !.attachments =
                                    [a \in DOMAIN @ \ listed |-> @[a]]]

insert_message_id(b, channel_id, message_id) ==
    IF config.message_cache_size = 0
    THEN b
    ELSE LET channel_messages == ChannelMessages(b, channel_id) \cup {message_id}
         IN  IF Cardinality(channel_messages) < config.message_cache_size
             THEN [b EXCEPT !.channel_messages =
                                Insert(@, channel_id, channel_messages)]
             ELSE LET oldest_message_id == Lowest(channel_messages)
                  IN  [b EXCEPT !.channel_messages =
                                    Insert(@, channel_id,
                                           channel_messages \ {oldest_message_id}),
                                !.messages = Delete(@, oldest_message_id)]

MessageGet(b, message_id) == Lookup(b.messages, message_id)

\* Variant of remove that forgets the tracked id and keeps the message.
MessageRemoveKeepsMessage(b, message_id) ==
    IF ~Enabled("MESSAGE")
    THEN b
    ELSE IF message_id \notin DOMAIN b.messages
    THEN b
    ELSE LET message == b.messages[message_id]
         IN  IF message.channel_id \in DOMAIN b.channel_messages
             THEN [b EXCEPT !.channel_messages[message.channel_id] =
                                @ \ {message_id}]
             ELSE b

\* Variant of remove that leaves the id in the channel's set.
MessageRemoveKeepsTracked(b, message_id) ==
    IF ~Enabled("MESSAGE")
    THEN b
    ELSE [b EXCEPT !.messages = Delete(@, message_id)]

MessageRemove(b, message_id) ==
    IF ~Enabled("MESSAGE")
    THEN b
    ELSE IF message_id \notin DOMAIN b.messages
    THEN b
    ELSE LET message == b.messages[message_id]
             removed == [b EXCEPT !.messages = Delete(@, message_id)]
         IN  IF message.channel_id \in DOMAIN b.channel_messages
             THEN [removed EXCEPT !.channel_messages[message.channel_id] =
                                      @ \ {message_id}]
             ELSE removed

\* Variant of upsert that stores the message before it tracks the id, so that
\* the retention can evict the message it was given.
MessageUpsertInsertFirst(b, entity) ==
    IF ~Enabled("MESSAGE")
    THEN b
    ELSE IF entity.id \in DOMAIN b.messages
    THEN [b EXCEPT !.messages = Insert(@, entity.id, entity)]
    ELSE insert_message_id([b EXCEPT !.messages = Insert(@, entity.id, entity)],
                           entity.channel_id, entity.id)

\* Variant of upsert with the contains_key test inverted: the id is tracked
\* when the message is already stored.
MessageUpsertTrackStored(b, entity) ==
    IF ~Enabled("MESSAGE")
    THEN b
    ELSE LET tracked == IF entity.id \in DOMAIN b.messages
                        THEN insert_message_id(b, entity.channel_id, entity.id)
                        ELSE b
         IN  [tracked EXCEPT !.messages = Insert(@, entity.id, entity)]

\* Variant of upsert without the contains_key test: every upsert enters the
\* insert path.
MessageUpsertAlwaysTracks(b, entity) ==
    IF ~Enabled("MESSAGE")
    THEN b
    ELSE [insert_message_id(b, entity.channel_id, entity.id)
             EXCEPT !.messages = Insert(@, entity.id, entity)]

MessageUpsert(b, entity) ==
    IF ~Enabled("MESSAGE")
    THEN b
    ELSE LET tracked == IF entity.id \notin DOMAIN b.messages
                        THEN insert_message_id(b, entity.channel_id, entity.id)
                        ELSE b
         IN  [tracked EXCEPT !.messages = Insert(@, entity.id, entity)]

(***************************************************************************)
(* The repository of a type, as Backend hands it out.                      *)
(***************************************************************************)
Get(b, T, id) == IF T = "MESSAGE" THEN MessageGet(b, id) ELSE RepoGet(b, T, id)

Remove(b, T, id) ==
    IF T = "MESSAGE" THEN MessageRemove(b, id) ELSE RepoRemove(b, T, id)

Upsert(b, T, e) ==
    IF T = "MESSAGE" THEN MessageUpsert(b, e) ELSE RepoUpsert(b, T, e)

\* repository/impl.rs: upsert_bulk and remove_bulk call the singular operation
\* once per element, in the order of the input.
RECURSIVE upsert_bulk(_, _, _)
upsert_bulk(b, T, entities) ==
    IF entities = <<>>
    THEN b
    ELSE upsert_bulk(Upsert(b, T, Head(entities)), T, Tail(entities))

RECURSIVE remove_bulk(_, _, _)
remove_bulk(b, T, entity_ids) ==
    IF entity_ids = <<>>
    THEN b
    ELSE remove_bulk(Remove(b, T, Head(entity_ids)), T, Tail(entity_ids))

(***************************************************************************)
(* repository.rs: GuildRepository, the guild-scoped accessors.  Each reads *)
(* the guild's entry of an index map and yields nothing when there is none.*)
(***************************************************************************)
IndexOf(index, guild_id) ==
    IF guild_id \in DOMAIN index THEN index[guild_id] ELSE {}

channel_ids(b, guild_id) == IndexOf(b.guild_channels, guild_id)

emoji_ids(b, guild_id) == IndexOf(b.guild_emojis, guild_id)

member_ids(b, guild_id) == IndexOf(b.guild_members, guild_id)

presence_ids(b, guild_id) == IndexOf(b.guild_presences, guild_id)

role_ids(b, guild_id) == IndexOf(b.guild_roles, guild_id)

voice_state_ids(b, guild_id) == IndexOf(b.guild_voice_states, guild_id)

\* channels: the indexed ids, each probed as text, then voice, then category.
channels(b, guild_id) ==
    LET probe(id) ==
            IF id \in DOMAIN b.channels_text
            THEN {[kind |-> "CHANNEL_TEXT", id |-> id]}
            ELSE IF id \in DOMAIN b.channels_voice
            THEN {[kind |-> "CHANNEL_VOICE", id |-> id]}
            ELSE IF id \in DOMAIN b.channels_category
            THEN {[kind |-> "CHANNEL_CATEGORY", id |-> id]}
            ELSE {}
    IN  UNION {probe(id) : id \in channel_ids(b, guild_id)}

(***************************************************************************)
(* cache.rs: the events.  An event's writes are applied by the in-memory   *)
(* backend when they are issued, so processing an event is one step.       *)
(***************************************************************************)
\* The removes a handler pushes for a set of ids of one type.
RECURSIVE RemoveAll(_, _, _)
RemoveAll(b, T, ids) ==
    IF ids = {}
    THEN b
    ELSE LET id == CHOOSE x \in ids : TRUE
         IN  RemoveAll(Remove(b, T, id), T, ids \ {id})

RECURSIVE RemoveChannels(_, _)
RemoveChannels(b, cs) ==
    IF cs = {}
    THEN b
    ELSE LET c == CHOOSE x \in cs : TRUE
         IN  RemoveChannels(Remove(b, c.kind, c.id), cs \ {c})

\* UserEntity::from(user)
UserOf(user_id) == [id |-> user_id, name |-> "u"]

RECURSIVE UpsertChannels(_, _)
UpsertChannels(b, cs) ==
    IF cs = <<>>
    THEN b
    ELSE UpsertChannels(Upsert(b, Head(cs).kind, Head(cs).entity), Tail(cs))

\* The entities of a payload list, each stamped with the guild's id.
Stamped(list, guild_id) ==
    [i \in 1..Len(list) |-> [list[i] EXCEPT !.guild_id = guild_id]]

UsersOf(members) == [i \in 1..Len(members) |-> UserOf(members[i].user_id)]

ProcessGuildCreate(b, ev) ==
    LET b1 == UpsertChannels(b, ev.channels)
        b2 == upsert_bulk(b1, "EMOJI", Stamped(ev.emojis, ev.id))
        b3 == upsert_bulk(b2, "MEMBER", ev.members)
        b4 == upsert_bulk(b3, "USER", UsersOf(ev.members))
        b5 == upsert_bulk(b4, "PRESENCE", ev.presences)
        b6 == upsert_bulk(b5, "ROLE", Stamped(ev.roles, ev.id))
        b7 == upsert_bulk(b6, "VOICE_STATE", Stamped(ev.voice_states, ev.id))
    IN  Upsert(b7, "GUILD",
               [id |-> ev.id, name |-> ev.name, unavailable |-> ev.unavailable])

\* Variant of the handler that ignores the unavailable flag and removes the
\* guild record.
ProcessGuildDeleteRemoves(b, ev) == Remove(b, "GUILD", ev.id)

ProcessGuildDelete(b, ev) ==
    IF ev.unavailable
    THEN IF ev.id \in DOMAIN b.guilds
         THEN Upsert(b, "GUILD",
                     [b.guilds[ev.id] EXCEPT !.unavailable = ev.unavailable])
         ELSE b
    ELSE LET b1 == RemoveChannels(b, channels(b, ev.id))
             b2 == RemoveAll(b1, "EMOJI", emoji_ids(b, ev.id))
             b3 == RemoveAll(b2, "MEMBER",
                             {<<ev.id, id>> : id \in member_ids(b, ev.id)})
             b4 == RemoveAll(b3, "PRESENCE",
                             {<<ev.id, id>> : id \in presence_ids(b, ev.id)})
             b5 == RemoveAll(b4, "ROLE", role_ids(b, ev.id))
             b6 == RemoveAll(b5, "VOICE_STATE",
                             {<<ev.id, id>> : id \in voice_state_ids(b, ev.id)})
         IN  Remove(b6, "GUILD", ev.id)

ProcessGuildEmojisUpdate(b, ev) ==
    upsert_bulk(b, "EMOJI", Stamped(ev.emojis, ev.guild_id))

ProcessChannelCreate(b, ev) ==
    IF ev.kind \in {"CHANNEL_GROUP", "CHANNEL_PRIVATE"}
    THEN Upsert(upsert_bulk(b, "USER",
                            [i \in 1..Len(ev.recipients) |-> UserOf(ev.recipients[i])]),
                ev.kind, ev.entity)
    ELSE Upsert(b, ev.kind, ev.entity)

\* Variant of the handler that also empties the deleted channel's set of
\* tracked message ids.
ProcessChannelDeleteUntracks(b, ev) ==
    [Remove(b, ev.kind, ev.entity.id) EXCEPT
        !.channel_messages = Delete(@, ev.entity.id)]

ProcessChannelDelete(b, ev) == Remove(b, ev.kind, ev.entity.id)

ProcessRoleCreate(b, ev) ==
    Upsert(b, "ROLE", [ev.role EXCEPT !.guild_id = ev.guild_id])

ProcessRoleDelete(b, ev) == Remove(b, "ROLE", ev.role_id)

ProcessPresenceUpdate(b, ev) ==
    LET b1 == IF ev.user.full THEN Upsert(b, "USER", UserOf(ev.user.id)) ELSE b
    IN  Upsert(b1, "PRESENCE",
               [guild_id |-> ev.guild_id, user_id |-> ev.user.id,
                status |-> ev.status])

ProcessVoiceStateUpdate(b, ev) ==
    IF ev.guild_id = None
    THEN b
    ELSE Upsert(b, "VOICE_STATE",
                [guild_id |-> CHOOSE g \in ev.guild_id : TRUE,
                 user_id |-> ev.user_id, channel_id |-> ev.channel_id])

ProcessMemberAdd(b, ev) ==
    Upsert(Upsert(b, "USER", UserOf(ev.user_id)), "MEMBER", ev)

\* Variant of the handler that removes the member's user as well.
ProcessMemberRemoveWithUser(b, ev) ==
    Remove(Remove(b, "MEMBER", <<ev.guild_id, ev.user_id>>), "USER", ev.user_id)

ProcessMemberRemove(b, ev) == Remove(b, "MEMBER", <<ev.guild_id, ev.user_id>>)

\* Option::or
Or(a, b) == IF a # None THEN a ELSE b

\* Variant of the conversion that takes the nick of the patch as it is.
MemberEntityUpdateOverwrites(member, old) ==
    [old EXCEPT !.guild_id = member.guild_id,
                !.joined_at = Some(member.joined_at),
                !.nick = member.nick,
                !.premium_since = Or(member.premium_since, old.premium_since),
                !.role_ids = member.roles,
                !.user_id = member.user.id]

\* guild/member.rs: MemberEntity::from((update, old)), what the handler's
\* member.update(update) stores.
MemberEntityUpdate(member, old) ==
    [old EXCEPT !.guild_id = member.guild_id,
                !.joined_at = Some(member.joined_at),
                !.nick = Or(member.nick, old.nick),
                !.premium_since = Or(member.premium_since, old.premium_since),
                !.role_ids = member.roles,
                !.user_id = member.user.id]

\* Variant of the handler that writes the user before it looks the member up.
ProcessMemberUpdateUserFirst(b, ev) ==
    LET key == <<ev.guild_id, ev.user.id>>
        b1 == Upsert(b, "USER", ev.user)
    IN  IF key \notin DOMAIN b.members
        THEN b1
        ELSE Upsert(b1, "MEMBER", MemberEntityUpdate(ev, b.members[key]))

ProcessMemberUpdate(b, ev) ==
    LET key == <<ev.guild_id, ev.user.id>>
    IN  IF key \notin DOMAIN b.members
        THEN b
        ELSE Upsert(Upsert(b, "USER", ev.user),
                    "MEMBER", MemberEntityUpdate(ev, b.members[key]))

(***************************************************************************)
(* The history the retention claims speak of: the ids created so far in    *)
(* one channel, while nothing happened but creations with increasing ids.  *)
(***************************************************************************)
NoCreated == [ok |-> FALSE, channel |-> 0, ids |-> {}]

CreatedAfter(T, e) ==
    IF /\ T = "MESSAGE"
       /\ created.ok
       /\ created.channel \in {0, e.channel_id}
       /\ \A i \in created.ids : i < e.id
    THEN [ok |-> TRUE, channel |-> e.channel_id, ids |-> created.ids \cup {e.id}]
    ELSE NoCreated

(***************************************************************************)
(* Spec: the repository layer, one call per step.                          *)
(***************************************************************************)
Init ==
    /\ backend = NewBackend
    /\ config \in Configs
    /\ last = "new"
    /\ created = [ok |-> TRUE, channel |-> 0, ids |-> {}]
    /\ futures = <<>>
    /\ result = NoResult
    /\ lazy = FALSE
    /\ before = NewBackend
    /\ event = NoEvent

\* The label of a repository call: its name, and whether the type was enabled.
Call(name, T) == IF Enabled(T) THEN name ELSE name \o ".disabled"

DoUpsert ==
    \E T \in MapTypes : \E e \in Entities(T) :
        /\ backend' = Upsert(backend, T, e)
        /\ Stored(backend') <= MaxStored
        /\ last' = Call("upsert", T)
        /\ created' = CreatedAfter(T, e)
        /\ UNCHANGED <<config, futures, result, lazy, before, event>>

DoRemove ==
    \E T \in MapTypes : \E id \in Ids(T) :
        /\ backend' = Remove(backend, T, id)
        /\ last' = Call("remove", T)
        /\ created' = NoCreated
        /\ UNCHANGED <<config, futures, result, lazy, before, event>>

DoCurrentUserUpsert ==
    \E e \in Entities("USER_CURRENT") :
        /\ backend' = CurrentUserUpsert(backend, e)
        /\ Stored(backend') <= MaxStored
        /\ last' = Call("upsert", "USER_CURRENT")
        /\ created' = NoCreated
        /\ UNCHANGED <<config, futures, result, lazy, before, event>>

DoCurrentUserRemove ==
    /\ backend' = CurrentUserRemove(backend)
    /\ last' = Call("remove", "USER_CURRENT")
    /\ created' = NoCreated
    /\ UNCHANGED <<config, futures, result, lazy, before, event>>

Next ==
    \/ DoUpsert
    \/ DoRemove
    \/ DoCurrentUserUpsert
    \/ DoCurrentUserRemove

Spec == Init /\ [][Next]_vars

(***************************************************************************)
(* Properties of the repository layer (checked under Spec).                *)
(***************************************************************************)
\* The ids of the stored messages of a channel.
StoredIn(b, channel_id) ==
    {m \in DOMAIN b.messages : b.messages[m].channel_id = channel_id}

\* The n highest ids of a set.
RECURSIVE Highest(_, _)
Highest(S, n) ==
    IF n = 0 \/ S = {}
    THEN {}
    ELSE LET top == CHOOSE x \in S : \A y \in S : y <= x
         IN  {top} \cup Highest(S \ {top}, n - 1)

\* C2: with a retention bound B >= 1, no channel ever has more than B stored
\* messages, whatever the sequence and order of upserts and removes.
C2_RetentionBound ==
    config.message_cache_size >= 1 =>
        \A c \in ChannelIds :
            Cardinality(StoredIn(backend, c)) <= config.message_cache_size

\* C3: with a retention bound B >= 1, after more than B messages were created
\* in one channel with strictly increasing ids, exactly the B highest of them
\* are retrievable (B = 2 and three creations: the first is gone, the second
\* and the third are stored).
C3_KeepsHighest ==
    (/\ Enabled("MESSAGE")
     /\ config.message_cache_size >= 1
     /\ created.ok
     /\ Cardinality(created.ids) > config.message_cache_size)
        => DOMAIN backend.messages
               = Highest(created.ids, config.message_cache_size)

\* C4: for a disabled entity type, get is None for every id and list is
\* empty after any operations, and an upsert or a remove of that type
\* changes nothing.
C4_DisabledTypeInert ==
    /\ \A T \in MapTypes \ config.entity_types :
            /\ RepoList(backend, T) = {}
            /\ \A id \in Ids(T) : Get(backend, T, id) = None
            /\ \A e \in Entities(T) : Upsert(backend, T, e) = backend
            /\ \A id \in Ids(T) : Remove(backend, T, id) = backend
    /\ ~Enabled("USER_CURRENT") =>
            /\ CurrentUserGet(backend) = None
            /\ \A e \in Entities("USER_CURRENT") :
                   CurrentUserUpsert(backend, e) = backend
            /\ CurrentUserRemove(backend) = backend

\* C4 witness: an upsert of a disabled type was just issued on a backend that
\* holds entities of the enabled types.
C4_Witness ==
    /\ last = "upsert.disabled"
    /\ Stored(backend) >= 1

C7_UpsertIdempotent ==
    /\ \A T \in MapTypes : \A e \in Entities(T) :
            /\ Upsert(Upsert(backend, T, e), T, e) = Upsert(backend, T, e)
            /\ RepoUpsert(RepoUpsert(backend, T, e), T, e)
                   = RepoUpsert(backend, T, e)
    /\ \A e \in Entities("USER_CURRENT") :
            CurrentUserUpsert(CurrentUserUpsert(backend, e), e)
                = CurrentUserUpsert(backend, e)

\* C7 witness: a message is stored and tracked in its channel's set, so that
\* a second upsert of it finds both.
C7_Witness ==
    /\ last = "upsert"
    /\ \E m \in DOMAIN backend.messages :
           m \in ChannelMessages(backend, backend.messages[m].channel_id)

(***************************************************************************)
(* SpecEngine: Cache::process on the in-memory backend, one event a step.  *)
(***************************************************************************)
MaxChildren == 2

GuildChannelTypes == {"CHANNEL_TEXT", "CHANNEL_VOICE", "CHANNEL_CATEGORY"}

ChildTypes ==
    GuildChannelTypes \cup {"EMOJI", "MEMBER", "PRESENCE", "ROLE", "VOICE_STATE"}

\* A list of a payload: empty, or one of the given elements.
AtMostOne(S) == {<<>>} \cup {<<x>> : x \in S}

\* The first member profile, carried by the members of a guild snapshot.
PlainMember(g, u) ==
    CHOOSE m \in MemberEntities :
        m.guild_id = g /\ m.user_id = u /\ m.nick = None /\ ~m.deaf /\ ~m.mute

GuildCreates ==
    {ev \in UNION {
        [id : {g}, name : {"a"}, unavailable : {FALSE},
         channels : AtMostOne({[kind |-> k, entity |-> e] :
                        k \in GuildChannelTypes,
                        e \in {x \in Entities("CHANNEL_TEXT") :
                                   x.id = 1 /\ x.guild_id = Some(g)}}),
         emojis : AtMostOne({e \in Entities("EMOJI") : e.id = 1}),
         members : AtMostOne({PlainMember(g, 1)}),
         presences : AtMostOne({e \in Entities("PRESENCE") :
                                    e.guild_id = g /\ e.user_id = 1}),
         roles : AtMostOne({e \in Entities("ROLE") : e.id = 1}),
         voice_states : AtMostOne({e \in Entities("VOICE_STATE") : e.user_id = 1})] :
        g \in GuildIds} :
      Len(ev.channels) + Len(ev.emojis) + Len(ev.members) + Len(ev.presences)
        + Len(ev.roles) + Len(ev.voice_states) <= MaxChildren}

GuildDeletes == [id : GuildIds, unavailable : BOOLEAN]

InitEngine ==
    /\ backend = NewBackend
    /\ config = [entity_types |-> EntityType, message_cache_size |-> MaxCacheSize]
    /\ last = "new"
    /\ created = NoCreated
    /\ futures = <<>>
    /\ result = NoResult
    /\ lazy = FALSE
    /\ before = NewBackend
    /\ event = NoEvent

GuildCreate ==
    \E ev \in GuildCreates :
        /\ backend' = ProcessGuildCreate(backend, ev)
        /\ Stored(backend') <= MaxStored
        /\ last' = "GuildCreate"
        /\ UNCHANGED <<config, created, futures, result, lazy, before, event>>

GuildDelete ==
    \E ev \in GuildDeletes :
        /\ backend' = ProcessGuildDelete(backend, ev)
        /\ last' = IF ev.unavailable THEN "GuildDelete.unavailable"
                   ELSE "GuildDelete"
        /\ UNCHANGED <<config, created, futures, result, lazy, before, event>>

GuildEmojisUpdate ==
    \E g \in GuildIds : \E es \in AtMostOne(Entities("EMOJI")) :
        /\ backend' = ProcessGuildEmojisUpdate(backend,
                          [guild_id |-> g, emojis |-> es])
        /\ Stored(backend') <= MaxStored
        /\ last' = "GuildEmojisUpdate"
        /\ UNCHANGED <<config, created, futures, result, lazy, before, event>>

ChannelCreate ==
    \E k \in GuildChannelTypes : \E e \in Entities(k) :
        /\ backend' = ProcessChannelCreate(backend, [kind |-> k, entity |-> e])
        /\ Stored(backend') <= MaxStored
        /\ last' = "ChannelCreate"
        /\ UNCHANGED <<config, created, futures, result, lazy, before, event>>

ChannelDelete ==
    \E k \in GuildChannelTypes : \E e \in Entities(k) :
        /\ backend' = ProcessChannelDelete(backend, [kind |-> k, entity |-> e])
        /\ last' = "ChannelDelete"
        /\ UNCHANGED <<config, created, futures, result, lazy, before, event>>

RoleCreate ==
    \E g \in GuildIds : \E r \in Entities("ROLE") :
        /\ backend' = ProcessRoleCreate(backend, [guild_id |-> g, role |-> r])
        /\ Stored(backend') <= MaxStored
        /\ last' = "RoleCreate"
        /\ UNCHANGED <<config, created, futures, result, lazy, before, event>>

RoleDelete ==
    \E g \in GuildIds : \E r \in RoleIds :
        /\ backend' = ProcessRoleDelete(backend, [guild_id |-> g, role_id |-> r])
        /\ last' = "RoleDelete"
        /\ UNCHANGED <<config, created, futures, result, lazy, before, event>>

PresenceUpdate ==
    \E g \in GuildIds : \E u \in UserIds : \E full \in BOOLEAN :
        /\ backend' = ProcessPresenceUpdate(backend,
                          [guild_id |-> g, user |-> [id |-> u, full |-> full],
                           status |-> "online"])
        /\ Stored(backend') <= MaxStored
        /\ last' = "PresenceUpdate"
        /\ UNCHANGED <<config, created, futures, result, lazy, before, event>>

VoiceStateUpdate ==
    \E g \in {None} \cup {Some(x) : x \in GuildIds} : \E u \in UserIds :
        /\ backend' = ProcessVoiceStateUpdate(backend,
                          [guild_id |-> g, user_id |-> u, channel_id |-> None])
        /\ Stored(backend') <= MaxStored
        /\ last' = "VoiceStateUpdate"
        /\ UNCHANGED <<config, created, futures, result, lazy, before, event>>

MemberAdd ==
    \E member \in MemberEntities :
        /\ backend' = ProcessMemberAdd(backend, member)
        /\ Stored(backend') <= MaxStored
        /\ last' = "MemberAdd"
        /\ UNCHANGED <<config, created, futures, result, lazy, before, event>>

MemberRemove ==
    \E g \in GuildIds : \E u \in UserIds :
        /\ backend' = ProcessMemberRemove(backend, [guild_id |-> g, user_id |-> u])
        /\ last' = "MemberRemove"
        /\ UNCHANGED <<config, created, futures, result, lazy, before, event>>

\* A child entity written through its repository, without an event.
UpsertChild ==
    \E T \in ChildTypes : \E e \in Entities(T) :
        /\ backend' = Upsert(backend, T, e)
        /\ Stored(backend') <= MaxStored
        /\ last' = "upsert"
        /\ UNCHANGED <<config, created, futures, result, lazy, before, event>>

NextEngine ==
    \/ GuildCreate
    \/ GuildDelete
    \/ GuildEmojisUpdate
    \/ ChannelCreate
    \/ ChannelDelete
    \/ RoleCreate
    \/ RoleDelete
    \/ PresenceUpdate
    \/ VoiceStateUpdate
    \/ MemberAdd
    \/ MemberRemove
    \/ UpsertChild

SpecEngine == InitEngine /\ [][NextEngine]_vars

(***************************************************************************)
(* SpecMember: the member events on the in-memory backend.                 *)
(***************************************************************************)
MemberUpdates ==
    [guild_id : GuildIds, user : Entities("USER"), joined_at : {"j"},
     roles : {<<1>>},
     nick : {None, Some("Al")}, premium_since : {None, Some("t2")}]

MemberUpdate ==
    \E ev \in MemberUpdates :
        /\ backend' = ProcessMemberUpdate(backend, ev)
        /\ Stored(backend') <= MaxStored
        /\ last' = "MemberUpdate"
        /\ UNCHANGED <<config, created, futures, result, lazy, before, event>>

NextMember ==
    \/ MemberAdd
    \/ MemberRemove
    \/ MemberUpdate

SpecMember == InitEngine /\ [][NextMember]_vars

(***************************************************************************)
(* SpecFail: GuildCreate::process on a backend whose writes may fail, one  *)
(* future completion per step.  A backend applies a write either when the  *)
(* repository method is called (the in-memory and the unqlite backend: the  *)
(* future returned is already resolved) or when the future is polled       *)
(* (lazy); the Backend trait allows both.  A write that succeeds stores    *)
(* its entity.                                                             *)
(***************************************************************************)
MaxBulk == 2

\* The lists of at most MaxBulk elements with increasing ids.
UpTo(S) ==
    {<<>>} \cup UNION {{list \in [1..n -> S] :
                           \A i \in 1..n : list[i].id = i} : n \in 1..MaxBulk}

FailGuildCreates ==
    [id : {1}, name : {"a"}, unavailable : {FALSE},
     channels : AtMostOne({[kind |-> "CHANNEL_TEXT", entity |-> e] :
                    e \in {x \in Entities("CHANNEL_TEXT") :
                               x.id = 1 /\ x.guild_id = Some(1)}}),
     emojis : UpTo({e \in Entities("EMOJI") : e.guild_id = 1}),
     members : {<<>>},
     presences : {<<>>},
     roles : AtMostOne({e \in Entities("ROLE") : e.id = 1 /\ e.guild_id = 1}),
     voice_states : {<<>>}]

\* One pending write per element of a list given to a repository.
WritesOf(name, T, list) ==
    [i \in 1..Len(list) |->
        [of |-> name, type |-> T, entity |-> list[i], status |-> "pending"]]

\* Variant of the pushes without the bulk upsert of the members' users.
GuildCreateWritesNoUsers(ev) ==
    [i \in 1..Len(ev.channels) |->
        [of |-> "channel", type |-> ev.channels[i].kind,
         entity |-> ev.channels[i].entity, status |-> "pending"]]
    \o WritesOf("emojis", "EMOJI", Stamped(ev.emojis, ev.id))
    \o WritesOf("members", "MEMBER", ev.members)
    \o WritesOf("presences", "PRESENCE", ev.presences)
    \o WritesOf("roles", "ROLE", Stamped(ev.roles, ev.id))
    \o WritesOf("voice_states", "VOICE_STATE", Stamped(ev.voice_states, ev.id))
    \o WritesOf("guild", "GUILD",
                <<[id |-> ev.id, name |-> ev.name, unavailable |-> ev.unavailable]>>)

\* The futures GuildCreate::process pushes, in the order it pushes them; an
\* upsert_bulk is the try_join_all of one upsert per element.
GuildCreateWrites(ev) ==
    [i \in 1..Len(ev.channels) |->
        [of |-> "channel", type |-> ev.channels[i].kind,
         entity |-> ev.channels[i].entity, status |-> "pending"]]
    \o WritesOf("emojis", "EMOJI", Stamped(ev.emojis, ev.id))
    \o WritesOf("members", "MEMBER", ev.members)
    \o WritesOf("users", "USER", UsersOf(ev.members))
    \o WritesOf("presences", "PRESENCE", ev.presences)
    \o WritesOf("roles", "ROLE", Stamped(ev.roles, ev.id))
    \o WritesOf("voice_states", "VOICE_STATE", Stamped(ev.voice_states, ev.id))
    \o WritesOf("guild", "GUILD",
                <<[id |-> ev.id, name |-> ev.name, unavailable |-> ev.unavailable]>>)

\* The backend after the writes of a list that succeeded.
RECURSIVE ApplyDone(_, _)
ApplyDone(b, fs) ==
    IF fs = <<>>
    THEN b
    ELSE ApplyDone(IF Head(fs).status = "done"
                   THEN Upsert(b, Head(fs).type, Head(fs).entity)
                   ELSE b,
                   Tail(fs))

\* Variant in which the pending futures outlive the error.
DropPendingKeeps(fs) == fs

\* try_collect and try_join_all on an error: the error is returned at once
\* and the futures still pending are dropped with the collection.
DropPending(fs) ==
    [i \in 1..Len(fs) |->
        IF fs[i].status = "pending" THEN [fs[i] EXCEPT !.status = "dropped"]
        ELSE fs[i]]

InitFail ==
    /\ backend = NewBackend
    /\ config = [entity_types |-> EntityType, message_cache_size |-> MaxCacheSize]
    /\ last = "new"
    /\ created = NoCreated
    /\ futures = <<>>
    /\ result = NoResult
    /\ lazy \in BOOLEAN
    /\ before = NewBackend
    /\ event = NoEvent

\* process is called: every repository method is called and its future is
\* pushed.  A backend that writes in the call has done so, or failed, by now.
FailIssue ==
    \E ev \in FailGuildCreates :
        LET fs == GuildCreateWrites(ev)
        IN  /\ result.kind \in {"none", "Ok", "Err"}
            /\ \A i \in 1..Len(futures) : futures[i].status # "pending"
            /\ futures = <<>> \/ result.kind # "none"
            /\ before' = backend
            /\ result' = NoResult
            /\ last' = "GuildCreate"
            /\ IF lazy
               THEN /\ futures' = fs
                    /\ backend' = backend
               ELSE \E outcome \in [1..Len(fs) -> {"done", "failed"}] :
                        /\ futures' = [i \in 1..Len(fs) |->
                                          [fs[i] EXCEPT !.status = outcome[i]]]
                        /\ backend' = ApplyDone(backend, futures')
            /\ UNCHANGED <<config, created, lazy, event>>

\* A pending write is polled and succeeds.
FailComplete ==
    \E i \in 1..Len(futures) :
        /\ result.kind = "none"
        /\ futures[i].status = "pending"
        /\ futures' = [futures EXCEPT ![i].status = "done"]
        /\ backend' = Upsert(backend, futures[i].type, futures[i].entity)
        /\ UNCHANGED <<config, last, created, result, lazy, before, event>>

\* A pending write is polled and fails: process resolves to its error.
FailError ==
    \E i \in 1..Len(futures) :
        /\ result.kind = "none"
        /\ futures[i].status = "pending"
        /\ futures' = DropPending([futures EXCEPT ![i].status = "failed"])
        /\ result' = [kind |-> "Err", at |-> i]
        /\ UNCHANGED <<backend, config, last, created, lazy, before, event>>

\* No write is pending: process resolves, to the error of a failed write if
\* there is one.
FailResolve ==
    /\ result.kind = "none"
    /\ futures # <<>>
    /\ \A i \in 1..Len(futures) : futures[i].status # "pending"
    /\ LET failed == {i \in 1..Len(futures) : futures[i].status = "failed"}
       IN  IF failed = {}
           THEN result' = [kind |-> "Ok", at |-> 0]
           ELSE \E i \in failed : result' = [kind |-> "Err", at |-> i]
    /\ UNCHANGED <<backend, config, last, created, futures, lazy, before, event>>

NextFail ==
    \/ FailIssue
    \/ FailComplete
    \/ FailError
    \/ FailResolve

SpecFail == InitFail /\ [][NextFail]_vars

(***************************************************************************)
(* Properties of the engine (checked under SpecEngine and SpecMember).     *)
(***************************************************************************)
\* The guild a child entity belongs to.
GuildOf(T, e) == IF T \in GuildChannelTypes THEN e.guild_id ELSE Some(e.guild_id)

\* The ids of the stored children of a type whose guild id is g.
Children(b, T, g) ==
    {id \in DOMAIN b[MapOf(T)] : GuildOf(T, b[MapOf(T)][id]) = Some(g)}

\* C1: after a GuildDelete with unavailable = false for guild g, the guild is
\* gone and so is every channel, emoji, member, presence, role and voice state
\* that was stored with guild id g before the event.
C1_GuildDeleteCascades ==
    \A g \in GuildIds :
        LET after == ProcessGuildDelete(backend, [id |-> g, unavailable |-> FALSE])
        IN  /\ Get(after, "GUILD", g) = None
            /\ \A T \in ChildTypes : \A id \in Children(backend, T, g) :
                   Get(after, T, id) = None

\* C5: a GuildDelete with unavailable = true for a stored guild changes only
\* that guild's unavailable field, to true; no other guild and no channel,
\* emoji, member, presence, role or voice state is removed or modified; for a
\* guild that is not stored nothing changes.
C5_UnavailableOnlyFlips ==
    \A g \in GuildIds :
        LET after == ProcessGuildDelete(backend, [id |-> g, unavailable |-> TRUE])
        IN  IF g \in DOMAIN backend.guilds
            THEN /\ DOMAIN after.guilds = DOMAIN backend.guilds
                 /\ after.guilds[g].unavailable
                 /\ after.guilds[g].id = backend.guilds[g].id
                 /\ after.guilds[g].name = backend.guilds[g].name
                 /\ \A h \in DOMAIN backend.guilds \ {g} :
                        after.guilds[h] = backend.guilds[h]
                 /\ \A f \in DOMAIN backend \ {"guilds"} : after[f] = backend[f]
            ELSE after = backend

\* C5 witness: a GuildDelete with unavailable = true was just processed for a
\* stored guild that has a stored child.
C5_Witness ==
    /\ last = "GuildDelete.unavailable"
    /\ \E g \in DOMAIN backend.guilds :
           /\ backend.guilds[g].unavailable
           /\ \E T \in ChildTypes : Children(backend, T, g) # {}

\* C8: in every reachable state the guild-scoped id accessors of guild g
\* yield exactly the ids of the stored channels, emojis, members, presences,
\* roles and voice states whose guild id is g.
C8_IndexesInSync ==
    \A g \in GuildIds :
        /\ channel_ids(backend, g)
               = UNION {Children(backend, T, g) : T \in GuildChannelTypes}
        /\ emoji_ids(backend, g) = Children(backend, "EMOJI", g)
        /\ member_ids(backend, g) = {id[2] : id \in Children(backend, "MEMBER", g)}
        /\ presence_ids(backend, g)
               = {id[2] : id \in Children(backend, "PRESENCE", g)}
        /\ role_ids(backend, g) = Children(backend, "ROLE", g)
        /\ voice_state_ids(backend, g)
               = {id[2] : id \in Children(backend, "VOICE_STATE", g)}

\* C10: a MemberUpdate for a stored member keeps the stored nick and the
\* stored premium_since where the patch carries None, replaces them where the
\* patch carries a value, and leaves deaf, mute and hoisted_role_id unchanged.
C10_MemberPatch ==
    \A ev \in MemberUpdates :
        LET key == <<ev.guild_id, ev.user.id>>
            after == ProcessMemberUpdate(backend, ev)
        IN  key \in DOMAIN backend.members =>
                LET old == backend.members[key]
                    new == after.members[key]
                IN  /\ new.nick = IF ev.nick = None THEN old.nick ELSE ev.nick
                    /\ new.premium_since = IF ev.premium_since = None
                                           THEN old.premium_since
                                           ELSE ev.premium_since
                    /\ new.deaf = old.deaf
                    /\ new.mute = old.mute
                    /\ new.hoisted_role_id = old.hoisted_role_id

\* C10 witness: a MemberUpdate was just processed that replaced the nick and
\* kept the stored premium_since and the stored flags.
C10_Witness ==
    /\ last = "MemberUpdate"
    /\ \E key \in DOMAIN backend.members :
           /\ backend.members[key].nick = Some("Al")
           /\ backend.members[key].premium_since = Some("t1")
           /\ backend.members[key].deaf
           /\ backend.members[key].hoisted_role_id = Some(1)

(***************************************************************************)
(* Properties of a failing event (checked under SpecFail).                 *)
(***************************************************************************)
Statuses(fs) == {fs[i].status : i \in 1..Len(fs)}

Unwrap(o) == CHOOSE x \in o : TRUE

\* GuildEntity::update: the stored guild with the fields of the update.
GuildEntityUpdate(guild, update) == [guild EXCEPT !.name = update.name]

ProcessGuildUpdate(b, ev) ==
    LET guild == Get(b, "GUILD", ev.id)
    IN  IF guild = None
        THEN b
        ELSE Upsert(b, "GUILD", GuildEntityUpdate(Unwrap(guild), ev))

\* Variant of the handler that writes the channel and forgets its recipients.
ProcessChannelUpdateNoUsers(b, ev) == Upsert(b, ev.kind, ev.entity)

ProcessChannelUpdate(b, ev) ==
    IF ev.kind \in {"CHANNEL_GROUP", "CHANNEL_PRIVATE"}
    THEN Upsert(upsert_bulk(b, "USER",
                            [i \in 1..Len(ev.recipients) |-> UserOf(ev.recipients[i])]),
                ev.kind, ev.entity)
    ELSE Upsert(b, ev.kind, ev.entity)

\* The stored channel of a kind with the pins timestamp of the event.
Pinned(b, T, ev) ==
    Upsert(b, T, [Unwrap(Get(b, T, ev.channel_id))
                      EXCEPT !.last_pin_timestamp = ev.last_pin_timestamp])

\* Variant of the handler that goes on probing after a hit.
ProcessChannelPinsUpdateAll(b, ev) ==
    LET b1 == IF Get(b, "CHANNEL_GROUP", ev.channel_id) # None
              THEN Pinned(b, "CHANNEL_GROUP", ev) ELSE b
        b2 == IF Get(b1, "CHANNEL_TEXT", ev.channel_id) # None
              THEN Pinned(b1, "CHANNEL_TEXT", ev) ELSE b1
    IN  IF Get(b2, "CHANNEL_PRIVATE", ev.channel_id) # None
        THEN Pinned(b2, "CHANNEL_PRIVATE", ev) ELSE b2

ProcessChannelPinsUpdate(b, ev) ==
    IF Get(b, "CHANNEL_GROUP", ev.channel_id) # None
    THEN Pinned(b, "CHANNEL_GROUP", ev)
    ELSE IF Get(b, "CHANNEL_TEXT", ev.channel_id) # None
    THEN Pinned(b, "CHANNEL_TEXT", ev)
    ELSE IF Get(b, "CHANNEL_PRIVATE", ev.channel_id) # None
    THEN Pinned(b, "CHANNEL_PRIVATE", ev)
    ELSE b

(***************************************************************************)
(* SpecChannel: the channel events of every kind, the patches and the      *)
(* removals on the in-memory backend, one event a step.                    *)
(***************************************************************************)
ChannelTypes ==
    GuildChannelTypes \cup {"CHANNEL_GROUP", "CHANNEL_PRIVATE"}

\* The ids of the users a channel payload nests.
RecipientsOf(k, e) ==
    IF k = "CHANNEL_GROUP" THEN e.recipient_ids
    ELSE IF k = "CHANNEL_PRIVATE" /\ e.recipient_id # None
    THEN <<Unwrap(e.recipient_id)>>
    ELSE <<>>

\* The channels of a kind that a payload carries: those of Entities, and the
\* group and the private channel without a recipient.
ChannelsOf(k) ==
    Entities(k)
    \cup (IF k = "CHANNEL_GROUP"
          THEN {[e EXCEPT !.recipient_ids = <<>>] : e \in Entities(k)}
          ELSE IF k = "CHANNEL_PRIVATE"
          THEN {[e EXCEPT !.recipient_id = None] : e \in Entities(k)}
          ELSE {})

ChannelEvents ==
    UNION {{[kind |-> k, entity |-> e, recipients |-> RecipientsOf(k, e)] :
                e \in ChannelsOf(k)} : k \in ChannelTypes}

PinsUpdates == [channel_id : ChannelIds, last_pin_timestamp : {None, Some("p")}]

GuildUpdates == [id : GuildIds, name : {"a", "b"}]

\* The repository of the first probe of ChannelPinsUpdate that hits.
PinsTarget(b, id) ==
    IF Get(b, "CHANNEL_GROUP", id) # None THEN "CHANNEL_GROUP"
    ELSE IF Get(b, "CHANNEL_TEXT", id) # None THEN "CHANNEL_TEXT"
    ELSE IF Get(b, "CHANNEL_PRIVATE", id) # None THEN "CHANNEL_PRIVATE"
    ELSE "absent"

AnyChannelCreate ==
    \E ev \in ChannelEvents :
        /\ backend' = ProcessChannelCreate(backend, ev)
        /\ Stored(backend') <= MaxStored
        /\ last' = "ChannelCreate"
        /\ UNCHANGED <<config, created, futures, result, lazy, before, event>>

ChannelUpdate ==
    \E ev \in ChannelEvents :
        /\ backend' = ProcessChannelUpdate(backend, ev)
        /\ Stored(backend') <= MaxStored
        /\ last' = "ChannelUpdate"
        /\ UNCHANGED <<config, created, futures, result, lazy, before, event>>

AnyChannelDelete ==
    \E ev \in ChannelEvents :
        /\ backend' = ProcessChannelDelete(backend, ev)
        /\ last' = IF Get(backend, ev.kind, ev.entity.id) # None
                   THEN "ChannelDelete" ELSE "ChannelDelete.absent"
        /\ UNCHANGED <<config, created, futures, result, lazy, before, event>>

ChannelPinsUpdate ==
    \E ev \in PinsUpdates :
        /\ backend' = ProcessChannelPinsUpdate(backend, ev)
        /\ last' = "ChannelPinsUpdate." \o PinsTarget(backend, ev.channel_id)
        /\ UNCHANGED <<config, created, futures, result, lazy, before, event>>

GuildUpdate ==
    \E ev \in GuildUpdates :
        /\ backend' = ProcessGuildUpdate(backend, ev)
        /\ last' = IF Get(backend, "GUILD", ev.id) # None
                   THEN "GuildUpdate" ELSE "GuildUpdate.absent"
        /\ UNCHANGED <<config, created, futures, result, lazy, before, event>>

\* A guild written through its repository, without an event.
UpsertGuild ==
    \E e \in Entities("GUILD") :
        /\ backend' = Upsert(backend, "GUILD", e)
        /\ Stored(backend') <= MaxStored
        /\ last' = "upsert"
        /\ UNCHANGED <<config, created, futures, result, lazy, before, event>>

NextChannel ==
    \/ AnyChannelCreate
    \/ ChannelUpdate
    \/ AnyChannelDelete
    \/ ChannelPinsUpdate
    \/ GuildUpdate
    \/ UpsertGuild
    \/ RoleCreate
    \/ RoleDelete
    \/ MemberAdd
    \/ MemberRemove
    \/ MemberUpdate

SpecChannel == InitEngine /\ [][NextChannel]_vars

(***************************************************************************)
(* Properties of the channel events, the patches and the removals (checked *)
(* under SpecChannel).                                                     *)
(***************************************************************************)
\* C13: a ChannelPinsUpdate whose channel id is stored as a group sets that
\* group's last_pin_timestamp to the event's and changes none of its other
\* fields, no other group and no other repository: get of that id on the
\* text and on the private channels gives what it gave before.
C13_PinsOnlyTheGroup ==
    \A ev \in PinsUpdates :
        Get(backend, "CHANNEL_GROUP", ev.channel_id) # None =>
            LET after == ProcessChannelPinsUpdate(backend, ev)
                old == backend.groups[ev.channel_id]
                new == after.groups[ev.channel_id]
            IN  /\ DOMAIN after.groups = DOMAIN backend.groups
                /\ new.last_pin_timestamp = ev.last_pin_timestamp
                /\ \A f \in DOMAIN old \ {"last_pin_timestamp"} : new[f] = old[f]
                /\ \A id \in DOMAIN backend.groups \ {ev.channel_id} :
                       after.groups[id] = backend.groups[id]
                /\ \A f \in DOMAIN backend \ {"groups"} : after[f] = backend[f]
                /\ Get(after, "CHANNEL_TEXT", ev.channel_id)
                       = Get(backend, "CHANNEL_TEXT", ev.channel_id)
                /\ Get(after, "CHANNEL_PRIVATE", ev.channel_id)
                       = Get(backend, "CHANNEL_PRIVATE", ev.channel_id)

\* C13 witness: a ChannelPinsUpdate just set the pins timestamp of a group
\* whose id is also the id of a stored text channel, which kept its own.
C13_Witness ==
    /\ last = "ChannelPinsUpdate.CHANNEL_GROUP"
    /\ \E id \in DOMAIN backend.groups \cap DOMAIN backend.channels_text :
           /\ backend.groups[id].last_pin_timestamp = Some("p")
           /\ backend.channels_text[id].last_pin_timestamp = None

\* The channel of the event is stored in the repository of its kind, nothing
\* else of that repository changed, the repositories of the other four kinds
\* are as they were, and every recipient of a group or private channel is a
\* stored user.
ChannelStored(after, b, ev) ==
    /\ Get(after, ev.kind, ev.entity.id) = Some(ev.entity)
    /\ DOMAIN after[MapOf(ev.kind)] = DOMAIN b[MapOf(ev.kind)] \cup {ev.entity.id}
    /\ \A id \in DOMAIN b[MapOf(ev.kind)] \ {ev.entity.id} :
           after[MapOf(ev.kind)][id] = b[MapOf(ev.kind)][id]
    /\ \A k \in ChannelTypes \ {ev.kind} : after[MapOf(k)] = b[MapOf(k)]
    /\ ev.kind \in {"CHANNEL_GROUP", "CHANNEL_PRIVATE"} =>
           \A i \in 1..Len(ev.recipients) :
               Get(after, "USER", ev.recipients[i]) # None

\* C16: ChannelCreate and ChannelUpdate upsert the channel into exactly the
\* one repository of its kind and leave the other four channel repositories
\* unchanged; for a group and a private channel every recipient is upserted
\* into the user repository, so get of each recipient id is Some afterwards
\* (every entity type enabled, as InMemoryBackend::new configures it).
C16_ChannelIntoItsKind ==
    \A ev \in ChannelEvents :
        /\ ChannelStored(ProcessChannelCreate(backend, ev), backend, ev)
        /\ ChannelStored(ProcessChannelUpdate(backend, ev), backend, ev)

\* C16 witness: a ChannelUpdate was just processed and a group is stored with
\* every one of its recipients stored as a user.
C16_Witness ==
    /\ last = "ChannelUpdate"
    /\ \E id \in DOMAIN backend.groups :
           /\ backend.groups[id].recipient_ids # <<>>
           /\ \A i \in 1..Len(backend.groups[id].recipient_ids) :
                  backend.groups[id].recipient_ids[i] \in DOMAIN backend.users

\* The entity of the id is gone from the repository of the type and nothing
\* else changed, in that repository or in any other.
RemovedOnly(after, b, T, id) ==
    /\ Get(after, T, id) = None
    /\ DOMAIN after[MapOf(T)] = DOMAIN b[MapOf(T)] \ {id}
    /\ \A k \in DOMAIN after[MapOf(T)] : after[MapOf(T)][k] = b[MapOf(T)][k]
    /\ \A f \in DOMAIN b \ {MapOf(T)} : after[f] = b[f]

\* C17: ChannelDelete, RoleDelete and MemberRemove remove exactly the entity
\* of the given id from the one matching repository and leave every other
\* stored entity unchanged, the user of a removed member and the entities
\* with the same id in other repositories included.
C17_RemovesOnlyTheTarget ==
    /\ \A ev \in ChannelEvents :
           RemovedOnly(ProcessChannelDelete(backend, ev), backend,
                       ev.kind, ev.entity.id)
    /\ \A g \in GuildIds : \A r \in RoleIds :
           RemovedOnly(ProcessRoleDelete(backend, [guild_id |-> g, role_id |-> r]),
                       backend, "ROLE", r)
    /\ \A g \in GuildIds : \A u \in UserIds :
           RemovedOnly(ProcessMemberRemove(backend, [guild_id |-> g, user_id |-> u]),
                       backend, "MEMBER", <<g, u>>)

\* C17 witness: a ChannelDelete just removed a stored channel and another
\* entity is still stored.
C17_Witness ==
    /\ last = "ChannelDelete"
    /\ Stored(backend) >= 1

(***************************************************************************)
(* cache.rs: the message events.  The in-memory backend applies a write    *)
(* when the repository method is called, so the writes of a handler take   *)
(* effect in the order in which it calls them.                             *)
(***************************************************************************)
\* AttachmentEntity::from((message_id, attachment)), for a list of attachments.
AttachmentsOf(message_id, attachments) ==
    [i \in 1..Len(attachments) |-> [id |-> attachments[i], message_id |-> message_id]]

\* Variant of the channel write that builds the channel anew and so drops
\* its pins timestamp.
LastMessageDropsPins(b, T, ev) ==
    IF Get(b, T, ev.channel_id) = None
    THEN b
    ELSE Upsert(b, T, [Unwrap(Get(b, T, ev.channel_id))
                           EXCEPT !.last_message_id = Some(ev.id),
                                  !.last_pin_timestamp = None])

\* The stored channel of a kind with the event's message as its last message.
LastMessage(b, T, ev) ==
    IF Get(b, T, ev.channel_id) = None
    THEN b
    ELSE Upsert(b, T, [Unwrap(Get(b, T, ev.channel_id))
                           EXCEPT !.last_message_id = Some(ev.id)])

ProcessMessageCreate(b, ev) ==
    LET b1 == LastMessage(b, "CHANNEL_GROUP", ev)
        b2 == LastMessage(b1, "CHANNEL_TEXT", ev)
        b3 == LastMessage(b2, "CHANNEL_PRIVATE", ev)
        b4 == upsert_bulk(b3, "ATTACHMENT", AttachmentsOf(ev.id, ev.attachments))
    IN  Upsert(b4, "MESSAGE",
               [id |-> ev.id, channel_id |-> ev.channel_id,
                content |-> ev.content, attachments |-> ev.attachments])

\* Variant of the update in which an unset attachment list empties the
\* stored one.
MessageEntityUpdateClears(message, update) ==
    [message EXCEPT
        !.attachments = IF update.attachments = None THEN <<>>
                        ELSE Unwrap(update.attachments),
        !.channel_id = update.channel_id,
        !.content = IF update.content = None THEN message.content
                    ELSE Unwrap(update.content),
        !.id = update.id]

\* MessageEntity::update: a field of the update that is Some replaces the
\* stored one; the id and the channel id are always the update's.
MessageEntityUpdate(message, update) ==
    [message EXCEPT
        !.attachments = IF update.attachments = None THEN message.attachments
                        ELSE Unwrap(update.attachments),
        !.channel_id = update.channel_id,
        !.content = IF update.content = None THEN message.content
                    ELSE Unwrap(update.content),
        !.id = update.id]

ProcessMessageUpdate(b, ev) ==
    LET b1 == IF ev.attachments = None
              THEN b
              ELSE upsert_bulk(b, "ATTACHMENT",
                               AttachmentsOf(ev.id, Unwrap(ev.attachments)))
        message == Get(b1, "MESSAGE", ev.id)
    IN  IF message = None
        THEN b1
        ELSE Upsert(b1, "MESSAGE", MessageEntityUpdate(Unwrap(message), ev))

\* MessageRepository::attachments: the ids a stored message lists, in their
\* order, that are ids of stored attachments; nothing for an unknown message.
MessageAttachments(b, message_id) ==
    IF Get(b, "MESSAGE", message_id) = None
    THEN <<>>
    ELSE SelectSeq(Unwrap(Get(b, "MESSAGE", message_id)).attachments,
                   LAMBDA id : Get(b, "ATTACHMENT", id) # None)

\* A list of removes applied in its order.
RECURSIVE ApplyRemoves(_, _)
ApplyRemoves(b, removes) ==
    IF removes = <<>>
    THEN b
    ELSE ApplyRemoves(Remove(b, Head(removes).type, Head(removes).id),
                      Tail(removes))

\* The removes of one deleted message in the order of their calls: one per
\* attachment the stream yields, then the message.
MessageRemoves(b, message_id) ==
    [i \in 1..Len(MessageAttachments(b, message_id)) |->
        [type |-> "ATTACHMENT", id |-> MessageAttachments(b, message_id)[i]]]
    \o <<[type |-> "MESSAGE", id |-> message_id]>>

\* Variant of the handler that removes the message and leaves its attachments.
ProcessMessageDeleteOnlyMessage(b, ev) == Remove(b, "MESSAGE", ev.id)

ProcessMessageDelete(b, ev) == ApplyRemoves(b, MessageRemoves(b, ev.id))

\* The removes of MessageDeleteBulk in the order of their calls: the loop
\* reads the attachments of an id after the removes of the ids before it.
RECURSIVE MessageDeleteBulkRemoves(_, _)
MessageDeleteBulkRemoves(b, ids) ==
    IF ids = <<>>
    THEN <<>>
    ELSE MessageRemoves(b, Head(ids))
         \o MessageDeleteBulkRemoves(ApplyRemoves(b, MessageRemoves(b, Head(ids))),
                                     Tail(ids))

ProcessMessageDeleteBulk(b, ev) ==
    ApplyRemoves(b, MessageDeleteBulkRemoves(b, ev.ids))

(***************************************************************************)
(* SpecMessage: the message events on the in-memory backend, one event a   *)
(* step.                                                                   *)
(***************************************************************************)
MaxMessageStored == 4

AttachmentLists == {<<>>, <<1>>, <<1, 2>>}

\* The ids of the messages of the events.
EventMessageIds == 1..MaxId

MessageCreates ==
    [id : EventMessageIds, channel_id : ChannelIds, content : {"x"},
     attachments : AttachmentLists]

MessageUpdates ==
    [id : EventMessageIds, channel_id : ChannelIds, content : {None, Some("y")},
     attachments : {None} \cup {Some(l) : l \in AttachmentLists}]

MessageDeletes == [id : EventMessageIds]

MessageDeleteBulks ==
    [ids : {<<>>} \cup {<<m>> : m \in EventMessageIds}
               \cup {<<m, n>> : m \in EventMessageIds, n \in EventMessageIds}]

\* Whether a message is stored that lists a stored attachment.
HasAttachments(b, message_id) == MessageAttachments(b, message_id) # <<>>

MessageCreate ==
    \E ev \in MessageCreates :
        /\ backend' = ProcessMessageCreate(backend, ev)
        /\ Stored(backend') <= MaxMessageStored
        /\ last' = "MessageCreate"
        /\ UNCHANGED <<config, created, futures, result, lazy, before, event>>

MessageUpdate ==
    \E ev \in MessageUpdates :
        /\ backend' = ProcessMessageUpdate(backend, ev)
        /\ Stored(backend') <= MaxMessageStored
        /\ last' = IF Get(backend, "MESSAGE", ev.id) # None
                   THEN "MessageUpdate" ELSE "MessageUpdate.absent"
        /\ UNCHANGED <<config, created, futures, result, lazy, before, event>>

MessageDelete ==
    \E ev \in MessageDeletes :
        /\ backend' = ProcessMessageDelete(backend, ev)
        /\ last' = IF HasAttachments(backend, ev.id)
                   THEN "MessageDelete.attachments" ELSE "MessageDelete"
        /\ UNCHANGED <<config, created, futures, result, lazy, before, event>>

MessageDeleteBulk ==
    \E ev \in MessageDeleteBulks :
        /\ backend' = ProcessMessageDeleteBulk(backend, ev)
        /\ last' = IF /\ Len(ev.ids) = 2
                      /\ ev.ids[1] # ev.ids[2]
                      /\ HasAttachments(backend, ev.ids[1])
                      /\ HasAttachments(backend, ev.ids[2])
                   THEN "MessageDeleteBulk.attachments" ELSE "MessageDeleteBulk"
        /\ UNCHANGED <<config, created, futures, result, lazy, before, event>>

NextMessage ==
    \/ MessageCreate
    \/ MessageUpdate
    \/ MessageDelete
    \/ MessageDeleteBulk

SpecMessage == InitEngine /\ [][NextMessage]_vars

(***************************************************************************)
(* Properties of the message events (checked under SpecMessage).           *)
(***************************************************************************)
\* C12: a MessageUpdate whose message id is not stored leaves every
\* repository as it was, the attachment repository included, also when the
\* patch carries a list of attachments.
C12_AbsentMessageDropped ==
    \A ev \in MessageUpdates :
        Get(backend, "MESSAGE", ev.id) = None
            => ProcessMessageUpdate(backend, ev) = backend

\* The elements of a list.
Range(list) == {list[i] : i \in 1..Len(list)}

\* Every message of the ids is gone, and so is every attachment that a stored
\* message of the ids listed.
Deleted(after, b, ids) ==
    \A m \in Range(ids) :
        /\ Get(after, "MESSAGE", m) = None
        /\ Get(b, "MESSAGE", m) # None =>
               \A a \in Range(b.messages[m].attachments) :
                   Get(after, "ATTACHMENT", a) = None

\* No remove of an attachment comes after the remove of a message that
\* listed it.
AttachmentsFirst(b, removes) ==
    \A j \in 1..Len(removes) : \A k \in 1..Len(removes) :
        (/\ removes[j].type = "MESSAGE"
         /\ removes[k].type = "ATTACHMENT"
         /\ Get(b, "MESSAGE", removes[j].id) # None
         /\ removes[k].id \in Range(b.messages[removes[j].id].attachments))
            => k < j

\* C14: after a MessageDelete or a MessageDeleteBulk get is None for each
\* deleted message and for every stored attachment whose id that message
\* listed, and no attachment is removed after the message that listed it.
C14_DeleteRemovesAttachments ==
    /\ \A ev \in MessageDeletes :
           /\ Deleted(ProcessMessageDelete(backend, ev), backend, <<ev.id>>)
           /\ AttachmentsFirst(backend, MessageRemoves(backend, ev.id))
    /\ \A ev \in MessageDeleteBulks :
           /\ Deleted(ProcessMessageDeleteBulk(backend, ev), backend, ev.ids)
           /\ AttachmentsFirst(backend, MessageDeleteBulkRemoves(backend, ev.ids))

\* C14 witness: a MessageDeleteBulk just deleted two stored messages that
\* each listed a stored attachment, and no attachment is left.
C14_Witness ==
    /\ last = "MessageDeleteBulk.attachments"
    /\ DOMAIN backend.attachments = {}

(***************************************************************************)
(* SpecCreate: one GuildCreate with any of its children, processed on a    *)
(* fresh cache whose backend may fail a write, one future completion per   *)
(* step.                                                                   *)
(***************************************************************************)
CreateIssue ==
    \E ev \in GuildCreates :
        LET fs == GuildCreateWrites(ev)
        IN  /\ futures = <<>>
            /\ result.kind = "none"
            /\ before' = backend
            /\ event' = ev
            /\ last' = "GuildCreate"
            /\ IF lazy
               THEN /\ futures' = fs
                    /\ backend' = backend
               ELSE \E outcome \in [1..Len(fs) -> {"done", "failed"}] :
                        /\ futures' = [i \in 1..Len(fs) |->
                                          [fs[i] EXCEPT !.status = outcome[i]]]
                        /\ backend' = ApplyDone(backend, futures')
            /\ UNCHANGED <<config, created, result, lazy>>

NextCreate ==
    \/ CreateIssue
    \/ FailComplete
    \/ FailError
    \/ FailResolve

SpecCreate == InitFail /\ [][NextCreate]_vars

(***************************************************************************)
(* Properties of GuildCreate (checked under SpecCreate).                   *)
(***************************************************************************)
\* C15: when process resolves a GuildCreate to Ok with every entity type
\* enabled, get is Some for the guild record, for every contained channel in
\* the repository of its kind, for every contained emoji, member, presence,
\* role and voice state, and for the user of every contained member; and
\* process resolves to Ok only if every one of the writes succeeded.
C15_GuildCreateStoresAll ==
    result.kind = "Ok" =>
        /\ \A i \in 1..Len(futures) : futures[i].status = "done"
        /\ Get(backend, "GUILD", event.id) # None
        /\ \A c \in Range(event.channels) :
               Get(backend, c.kind, c.entity.id) = Some(c.entity)
        /\ \A e \in Range(event.emojis) :
               Get(backend, "EMOJI", e.id) = Some([e EXCEPT !.guild_id = event.id])
        /\ \A m \in Range(event.members) :
               /\ Get(backend, "MEMBER", <<m.guild_id, m.user_id>>) = Some(m)
               /\ Get(backend, "USER", m.user_id) # None
        /\ \A e \in Range(event.presences) :
               Get(backend, "PRESENCE", <<e.guild_id, e.user_id>>) = Some(e)
        /\ \A e \in Range(event.roles) :
               Get(backend, "ROLE", e.id) = Some([e EXCEPT !.guild_id = event.id])
        /\ \A e \in Range(event.voice_states) :
               Get(backend, "VOICE_STATE", <<event.id, e.user_id>>)
                   = Some([e EXCEPT !.guild_id = event.id])

\* C15 witness: process resolved to Ok a GuildCreate that carried a member
\* and a channel, on a backend that writes when polled.
C15_Witness ==
    /\ result.kind = "Ok"
    /\ lazy
    /\ Len(event.members) = 1
    /\ Len(event.channels) = 1

(***************************************************************************)
(* SpecBulk: the default upsert_bulk and remove_bulk of a repository whose *)
(* singular operations may fail, one future completion per step.           *)
(* try_join_all collects the futures of its iterator when it is built, so  *)
(* the singular operation is called for every element before anything is   *)
(* polled.                                                                 *)
(***************************************************************************)
\* Variant of the mapping that loses the last element of the input.
BulkWritesSkipsLast(op, T, list) ==
    [i \in 1..(Len(list) - 1) |->
        [op |-> op, type |-> T, entity |-> list[i], status |-> "pending"]]

\* entities.map(|entity| self.upsert(entity)), entity_ids.map(|id|
\* self.remove(id)): one future per element, in the order of the input.
BulkWrites(op, T, list) ==
    [i \in 1..Len(list) |->
        [op |-> op, type |-> T, entity |-> list[i], status |-> "pending"]]

\* The effect of one singular operation that succeeded.
ApplyWrite(b, f) ==
    IF f.op = "upsert" THEN Upsert(b, f.type, f.entity)
    ELSE Remove(b, f.type, f.entity)

RECURSIVE ApplyWrites(_, _)
ApplyWrites(b, fs) ==
    IF fs = <<>>
    THEN b
    ELSE ApplyWrites(IF Head(fs).status = "done" THEN ApplyWrite(b, Head(fs)) ELSE b,
                     Tail(fs))

\* The inputs: emojis with distinct ids to upsert, emoji ids to remove.
BulkCalls ==
    [name : {"upsert_bulk"}, op : {"upsert"}, type : {"EMOJI"},
     list : UpTo(Entities("EMOJI"))]
    \cup [name : {"remove_bulk"}, op : {"remove"}, type : {"EMOJI"},
          list : {<<>>, <<1>>, <<2>>, <<1, 2>>, <<2, 1>>}]

BulkIssue ==
    \E call \in BulkCalls :
        LET fs == BulkWrites(call.op, call.type, call.list)
        IN  /\ futures = <<>> \/ result.kind # "none"
            /\ before' = backend
            /\ event' = call
            /\ result' = NoResult
            /\ last' = call.name
            /\ IF lazy
               THEN /\ futures' = fs
                    /\ backend' = backend
               ELSE \E outcome \in [1..Len(fs) -> {"done", "failed"}] :
                        /\ futures' = [i \in 1..Len(fs) |->
                                          [fs[i] EXCEPT !.status = outcome[i]]]
                        /\ backend' = ApplyWrites(backend, futures')
            /\ UNCHANGED <<config, created, lazy>>

\* A pending operation is polled and succeeds.
BulkComplete ==
    \E i \in 1..Len(futures) :
        /\ result.kind = "none"
        /\ futures[i].status = "pending"
        /\ futures' = [futures EXCEPT ![i].status = "done"]
        /\ backend' = ApplyWrite(backend, futures[i])
        /\ UNCHANGED <<config, last, created, result, lazy, before, event>>

\* A pending operation is polled and fails: try_join_all resolves to its
\* error and drops the futures that are still pending.
BulkError ==
    \E i \in 1..Len(futures) :
        /\ result.kind = "none"
        /\ futures[i].status = "pending"
        /\ futures' = DropPending([futures EXCEPT ![i].status = "failed"])
        /\ result' = [kind |-> "Err", at |-> i]
        /\ UNCHANGED <<backend, config, last, created, lazy, before, event>>

\* Nothing is pending: try_join_all, which polls its futures in the order of
\* the input, resolves to the first error if there is one.
BulkResolve ==
    /\ result.kind = "none"
    /\ event # NoEvent
    /\ \A i \in 1..Len(futures) : futures[i].status # "pending"
    /\ LET failed == {i \in 1..Len(futures) : futures[i].status = "failed"}
       IN  IF failed = {}
           THEN result' = [kind |-> "Ok", at |-> 0]
           ELSE result' = [kind |-> "Err", at |-> Lowest(failed)]
    /\ UNCHANGED <<backend, config, last, created, futures, lazy, before, event>>

NextBulk ==
    \/ BulkIssue
    \/ BulkComplete
    \/ BulkError
    \/ BulkResolve

SpecBulk == InitFail /\ [][NextBulk]_vars

(***************************************************************************)
(* Properties of the bulk defaults (checked under SpecBulk).               *)
(***************************************************************************)
\* The effect of a singular operation is in the backend.
Applied(b, f) ==
    IF f.op = "upsert"
    THEN Get(b, f.type, Id(f.type, f.entity)) = Some(f.entity)
    ELSE Get(b, f.type, f.entity) = None

\* C20: the default upsert_bulk and remove_bulk call the singular operation
\* once for every element of the input; if all succeed the result is Ok and
\* the effect of every element is applied; if one fails the result is that
\* error, the first met, and the effects of the operations that completed
\* stay applied: the backend is never rolled back.
C20_BulkAppliesEach ==
    event # NoEvent =>
        /\ Len(futures) = Len(event.list)
        /\ \A i \in 1..Len(futures) :
               /\ futures[i].op = event.op
               /\ futures[i].entity = event.list[i]
               /\ futures[i].status = "done" => Applied(backend, futures[i])
        /\ backend = ApplyWrites(before, futures)
        /\ result.kind = "Ok" =>
               /\ \A i \in 1..Len(futures) : futures[i].status = "done"
               /\ backend = IF event.op = "upsert"
                            THEN upsert_bulk(before, event.type, event.list)
                            ELSE remove_bulk(before, event.type, event.list)
        /\ result.kind = "Err" =>
               /\ futures[result.at].status = "failed"
               /\ ~lazy => \A i \in 1..(result.at - 1) : futures[i].status = "done"

\* C20 witness: an upsert_bulk of two emojis resolved to the error of one
\* while the other is stored.
C20_Witness ==
    /\ last = "upsert_bulk"
    /\ result.kind = "Err"
    /\ Len(futures) = 2
    /\ \E i \in 1..2 : futures[i].status = "done" /\ Applied(backend, futures[i])

(***************************************************************************)
(* What Cache::process returns.  A handler resolves to the first error of  *)
(* the repository calls it awaits (get and list through ?, the writes      *)
(* through try_collect and try_join_all) and to Ok when there is none.     *)
(***************************************************************************)
\* Variant of the in-memory repository whose remove fails.
OpResultRemoveFails(call) == IF call.op = "remove" THEN "Err" ELSE "Ok"

\* The in-memory repositories: get, list, remove and upsert each return
\* future::ok, whatever the type and the argument.
OpResult(call) == "Ok"

TryCollect(results) ==
    IF \E i \in 1..Len(results) : results[i] # "Ok" THEN "Err" ELSE "Ok"

\* n calls of one operation of the repository of a type.
CallsOf(op, T, n) == [i \in 1..n |-> [op |-> op, type |-> T]]

\* The gets of the probes of ChannelPinsUpdate up to the first hit.
PinsProbes(b, id) ==
    CASE PinsTarget(b, id) = "CHANNEL_GROUP" -> CallsOf("get", "CHANNEL_GROUP", 1)
      [] PinsTarget(b, id) = "CHANNEL_TEXT" ->
            CallsOf("get", "CHANNEL_GROUP", 1) \o CallsOf("get", "CHANNEL_TEXT", 1)
      [] OTHER ->
            CallsOf("get", "CHANNEL_GROUP", 1) \o CallsOf("get", "CHANNEL_TEXT", 1)
            \o CallsOf("get", "CHANNEL_PRIVATE", 1)

\* The repository calls a handler awaits for an event on a backend.
Calls(b, e) ==
    LET ev == e.payload
        hit(T, id) == IF Get(b, T, id) # None THEN 1 ELSE 0
    IN  CASE e.name \in {"ChannelCreate", "ChannelUpdate"} ->
                (IF ev.kind \in {"CHANNEL_GROUP", "CHANNEL_PRIVATE"}
                 THEN CallsOf("upsert", "USER", Len(ev.recipients)) ELSE <<>>)
                \o CallsOf("upsert", ev.kind, 1)
          [] e.name = "ChannelDelete" -> CallsOf("remove", ev.kind, 1)
          [] e.name = "ChannelPinsUpdate" ->
                PinsProbes(b, ev.channel_id)
                \o (IF PinsTarget(b, ev.channel_id) = "absent" THEN <<>>
                    ELSE CallsOf("upsert", PinsTarget(b, ev.channel_id), 1))
          [] e.name = "GuildCreate" ->
                [i \in 1..Len(GuildCreateWrites(ev)) |->
                    [op |-> "upsert", type |-> GuildCreateWrites(ev)[i].type]]
          [] e.name = "GuildDelete" ->
                IF ev.unavailable
                THEN CallsOf("get", "GUILD", 1)
                     \o CallsOf("upsert", "GUILD", hit("GUILD", ev.id))
                ELSE CallsOf("list", "GUILD", 6)
                     \o CallsOf("remove", "CHANNEL_TEXT",
                                Cardinality({c \in channels(b, ev.id) :
                                                c.kind = "CHANNEL_TEXT"}))
                     \o CallsOf("remove", "CHANNEL_VOICE",
                                Cardinality({c \in channels(b, ev.id) :
                                                c.kind = "CHANNEL_VOICE"}))
                     \o CallsOf("remove", "CHANNEL_CATEGORY",
                                Cardinality({c \in channels(b, ev.id) :
                                                c.kind = "CHANNEL_CATEGORY"}))
                     \o CallsOf("remove", "EMOJI", Cardinality(emoji_ids(b, ev.id)))
                     \o CallsOf("remove", "MEMBER", Cardinality(member_ids(b, ev.id)))
                     \o CallsOf("remove", "PRESENCE",
                                Cardinality(presence_ids(b, ev.id)))
                     \o CallsOf("remove", "ROLE", Cardinality(role_ids(b, ev.id)))
                     \o CallsOf("remove", "VOICE_STATE",
                                Cardinality(voice_state_ids(b, ev.id)))
                     \o CallsOf("remove", "GUILD", 1)
          [] e.name = "GuildEmojisUpdate" -> CallsOf("upsert", "EMOJI", Len(ev.emojis))
          [] e.name = "GuildUpdate" ->
                CallsOf("get", "GUILD", 1)
                \o CallsOf("upsert", "GUILD", hit("GUILD", ev.id))
          [] e.name = "MemberAdd" ->
                CallsOf("upsert", "USER", 1) \o CallsOf("upsert", "MEMBER", 1)
          [] e.name = "MemberRemove" -> CallsOf("remove", "MEMBER", 1)
          [] e.name = "MemberUpdate" ->
                CallsOf("get", "MEMBER", 1)
                \o CallsOf("upsert", "USER", hit("MEMBER", <<ev.guild_id, ev.user.id>>))
                \o CallsOf("upsert", "MEMBER", hit("MEMBER", <<ev.guild_id, ev.user.id>>))
          [] e.name = "MemberChunk" ->
                CallsOf("upsert", "MEMBER", Len(ev.members))
                \o CallsOf("upsert", "USER", Len(ev.members))
                \o CallsOf("upsert", "PRESENCE", Len(ev.presences))
          [] e.name = "MessageCreate" ->
                CallsOf("get", "CHANNEL_GROUP", 1)
                \o CallsOf("get", "CHANNEL_TEXT", 1)
                \o CallsOf("get", "CHANNEL_PRIVATE", 1)
                \o CallsOf("upsert", "CHANNEL_GROUP", hit("CHANNEL_GROUP", ev.channel_id))
                \o CallsOf("upsert", "CHANNEL_TEXT", hit("CHANNEL_TEXT", ev.channel_id))
                \o CallsOf("upsert", "CHANNEL_PRIVATE",
                           hit("CHANNEL_PRIVATE", ev.channel_id))
                \o CallsOf("upsert", "ATTACHMENT", Len(ev.attachments))
                \o CallsOf("upsert", "MESSAGE", 1)
          [] e.name = "MessageDelete" ->
                CallsOf("list", "MESSAGE", 1)
                \o [i \in 1..Len(MessageRemoves(b, ev.id)) |->
                       [op |-> "remove", type |-> MessageRemoves(b, ev.id)[i].type]]
          [] e.name = "MessageDeleteBulk" ->
                CallsOf("list", "MESSAGE", Len(ev.ids))
                \o [i \in 1..Len(MessageDeleteBulkRemoves(b, ev.ids)) |->
                       [op |-> "remove",
                        type |-> MessageDeleteBulkRemoves(b, ev.ids)[i].type]]
          [] e.name = "MessageUpdate" ->
                (IF ev.attachments = None THEN <<>>
                 ELSE CallsOf("upsert", "ATTACHMENT", Len(Unwrap(ev.attachments))))
                \o CallsOf("get", "MESSAGE", 1)
                \o CallsOf("upsert", "MESSAGE", hit("MESSAGE", ev.id))
          [] e.name = "PresenceUpdate" ->
                CallsOf("upsert", "USER", IF ev.user.full THEN 1 ELSE 0)
                \o CallsOf("upsert", "PRESENCE", 1)
          [] e.name \in {"Ready", "UserUpdate"} -> CallsOf("upsert", "USER_CURRENT", 1)
          [] e.name \in {"RoleCreate", "RoleUpdate"} -> CallsOf("upsert", "ROLE", 1)
          [] e.name = "RoleDelete" -> CallsOf("remove", "ROLE", 1)
          [] e.name = "VoiceStateUpdate" ->
                CallsOf("upsert", "VOICE_STATE", IF ev.guild_id = None THEN 0 ELSE 1)
          [] OTHER -> <<>>

\* The result of Cache::process for an event on the in-memory backend.
Returned(b, e) ==
    TryCollect([i \in 1..Len(Calls(b, e)) |-> OpResult(Calls(b, e)[i])])

\* The events of one kind, each with its payload.
EventsOf(name, payloads) == {[name |-> name, payload |-> ev] : ev \in payloads}

\* The events Cache::process dispatches to a handler, and two of those it
\* ignores.
Events ==
    EventsOf("ChannelCreate", ChannelEvents)
    \cup EventsOf("ChannelDelete", ChannelEvents)
    \cup EventsOf("ChannelPinsUpdate", PinsUpdates)
    \cup EventsOf("ChannelUpdate", ChannelEvents)
    \cup EventsOf("GuildCreate", GuildCreates)
    \cup EventsOf("GuildDelete", GuildDeletes)
    \cup EventsOf("GuildEmojisUpdate",
                  [guild_id : GuildIds, emojis : AtMostOne(Entities("EMOJI"))])
    \cup EventsOf("GuildUpdate", GuildUpdates)
    \cup EventsOf("MemberAdd", MemberEntities)
    \cup EventsOf("MemberRemove", [guild_id : GuildIds, user_id : UserIds])
    \cup EventsOf("MemberUpdate", MemberUpdates)
    \cup EventsOf("MemberChunk",
                  [members : AtMostOne(MemberEntities),
                   presences : AtMostOne(Entities("PRESENCE"))])
    \cup EventsOf("MessageCreate", MessageCreates)
    \cup EventsOf("MessageDelete", MessageDeletes)
    \cup EventsOf("MessageDeleteBulk", MessageDeleteBulks)
    \cup EventsOf("MessageUpdate", MessageUpdates)
    \cup EventsOf("PresenceUpdate",
                  [guild_id : GuildIds, user : [id : UserIds, full : BOOLEAN],
                   status : {"online"}])
    \cup EventsOf("Ready", [user : Entities("USER_CURRENT")])
    \cup EventsOf("RoleCreate", [guild_id : GuildIds, role : Entities("ROLE")])
    \cup EventsOf("RoleDelete", [guild_id : GuildIds, role_id : RoleIds])
    \cup EventsOf("RoleUpdate", [guild_id : GuildIds, role : Entities("ROLE")])
    \cup EventsOf("UserUpdate", [user : Entities("USER_CURRENT")])
    \cup EventsOf("VoiceStateUpdate",
                  [guild_id : {None} \cup {Some(g) : g \in GuildIds},
                   user_id : UserIds, channel_id : {None}])
    \cup EventsOf("TypingStart", {NoEvent})
    \cup EventsOf("BanAdd", {NoEvent})

(***************************************************************************)
(* Properties that speak of the result of a call (C11 and C19 checked      *)
(* under SpecChannel, C18 under Spec).                                     *)
(***************************************************************************)
\* C11: a GuildUpdate, a MemberUpdate or a ChannelPinsUpdate whose target is
\* not stored returns Ok and leaves every repository as it was: no guild,
\* member, user or channel is created or modified.
C11_AbsentTargetDropped ==
    /\ \A ev \in GuildUpdates :
           Get(backend, "GUILD", ev.id) = None =>
               /\ ProcessGuildUpdate(backend, ev) = backend
               /\ Returned(backend, [name |-> "GuildUpdate", payload |-> ev]) = "Ok"
    /\ \A ev \in MemberUpdates :
           Get(backend, "MEMBER", <<ev.guild_id, ev.user.id>>) = None =>
               /\ ProcessMemberUpdate(backend, ev) = backend
               /\ Returned(backend, [name |-> "MemberUpdate", payload |-> ev]) = "Ok"
    /\ \A ev \in PinsUpdates :
           PinsTarget(backend, ev.channel_id) = "absent" =>
               /\ ProcessChannelPinsUpdate(backend, ev) = backend
               /\ Returned(backend,
                           [name |-> "ChannelPinsUpdate", payload |-> ev]) = "Ok"

\* C11 witness: a GuildUpdate was just processed for a guild that is not
\* stored, while another guild is.
C11_Witness ==
    /\ last = "GuildUpdate.absent"
    /\ DOMAIN backend.guilds # {}

\* C18: remove(id) of an id that is not stored returns Ok and leaves the
\* backend state as it was; remove of a stored id makes get(id) None, and the
\* same remove once more changes nothing further (for the message repository
\* and for the generic one alike).
C18_RemoveIdempotent ==
    \A T \in MapTypes : \A id \in Ids(T) :
        /\ OpResult([op |-> "remove", type |-> T]) = "Ok"
        /\ Get(backend, T, id) = None => Remove(backend, T, id) = backend
        /\ Get(Remove(backend, T, id), T, id) = None
        /\ Remove(Remove(backend, T, id), T, id) = Remove(backend, T, id)
        /\ RepoGet(backend, T, id) = None => RepoRemove(backend, T, id) = backend
        /\ RepoGet(RepoRemove(backend, T, id), T, id) = None
        /\ RepoRemove(RepoRemove(backend, T, id), T, id) = RepoRemove(backend, T, id)

\* C18 witness: a remove was just issued and a channel's set of tracked
\* message ids is empty under the bound 2, which only the remove of a stored
\* message leaves behind.
C18_Witness ==
    /\ last = "remove"
    /\ config.message_cache_size = MaxCacheSize
    /\ \E c \in DOMAIN backend.channel_messages : backend.channel_messages[c] = {}

\* C19: on the in-memory backend every repository operation returns Ok, and
\* so Cache::process returns Ok for an event of every kind in every
\* reachable state.
C19_InMemoryNeverErrs ==
    /\ \A op \in {"get", "list", "remove", "upsert"} : \A T \in EntityType :
           OpResult([op |-> op, type |-> T]) = "Ok"
    /\ \A e \in Events : Returned(backend, e) = "Ok"

\* C19 witness: a ChannelDelete was just processed for a channel that is not
\* stored, a remove that finds nothing, while other entities are stored.
C19_Witness ==
    /\ last = "ChannelDelete.absent"
    /\ Stored(backend) >= 1

(***************************************************************************)
(* utils.rs: the relation helpers, on a backend whose reads may fail.      *)
(* A call is described by what the backend answers: local is the outcome   *)
(* of repo.get (of ids_future for stream_ids), ids is the sequence of the  *)
(* foreign ids, each with the outcome of reading it from the id stream and *)
(* the outcome of foreign.get on it.                                       *)
(***************************************************************************)
MaxForeign == 3

Outcomes == {"Err", "None", "Some"}

\* An id the extractor produced (always read), or an element of the id
\* stream of a backend, which may be an error.
ExtractedIds == [read : {"Ok"}, id : 1..MaxId, get : Outcomes]

StreamedIds == ExtractedIds \cup {[read |-> "Err", id |-> 1, get |-> "None"]}

ListsOf(S, lo, hi) == UNION {[1..n -> S] : n \in lo..hi}

OkItem(id) == [kind |-> "Ok", id |-> id]

ErrItem == [kind |-> "Err", id |-> 0]

\* What a call has produced: the items yielded so far, the foreign ids
\* queried so far.
Produced(kind, items, queried) ==
    [kind |-> kind, at |-> 0, items |-> items, queried |-> queried]

\* The outcome of foreign.get(id).await as relation_and_then and
\* relation_map return it.
ForeignGet(x) ==
    CASE x.get = "Err" -> Produced("Err", <<>>, <<x.id>>)
      [] x.get = "None" -> Produced("Ok", <<>>, <<x.id>>)
      [] x.get = "Some" -> Produced("Ok", <<OkItem(x.id)>>, <<x.id>>)

\* Variant that queries the foreign repository although the extractor
\* yielded no id.
relation_and_thenNoShortCircuit(call) ==
    CASE call.local = "Err" -> Produced("Err", <<>>, <<>>)
      [] call.local = "None" -> Produced("Ok", <<>>, <<>>)
      [] call.local = "Some" ->
            IF call.ids = <<>>
            THEN Produced("Ok", <<>>, <<1>>)
            ELSE ForeignGet(call.ids[1])

relation_and_then(call) ==
    CASE call.local = "Err" -> Produced("Err", <<>>, <<>>)
      [] call.local = "None" -> Produced("Ok", <<>>, <<>>)
      [] call.local = "Some" ->
            IF call.ids = <<>>
            THEN Produced("Ok", <<>>, <<>>)
            ELSE ForeignGet(call.ids[1])

relation_map(call) ==
    CASE call.local = "Err" -> Produced("Err", <<>>, <<>>)
      [] call.local = "None" -> Produced("Ok", <<>>, <<>>)
      [] call.local = "Some" -> ForeignGet(call.ids[1])

\* stream: the future resolves to an error, to stream::empty(), or to the
\* unfold over the extracted ids.  The ids left to read are the stream's state.
stream(call) ==
    CASE call.local = "Err" -> [produced |-> Produced("Err", <<>>, <<>>), ids |-> <<>>]
      [] call.local = "None" -> [produced |-> Produced("stream", <<>>, <<>>), ids |-> <<>>]
      [] call.local = "Some" -> [produced |-> Produced("stream", <<>>, <<>>), ids |-> call.ids]

stream_ids(call) ==
    CASE call.local = "Err" -> [produced |-> Produced("Err", <<>>, <<>>), ids |-> <<>>]
      [] call.local = "Some" -> [produced |-> Produced("stream", <<>>, <<>>), ids |-> call.ids]

\* Variant of the unfold closure that ends the stream at an error.
RECURSIVE UnfoldEndsAtErr(_, _)
UnfoldEndsAtErr(ids, queried) ==
    IF ids = <<>>
    THEN [item |-> None, ids |-> <<>>, queried |-> queried]
    ELSE LET x == Head(ids)
         IN  IF x.read = "Err"
             THEN [item |-> Some(ErrItem), ids |-> <<>>, queried |-> queried]
             ELSE CASE x.get = "Some" ->
                        [item |-> Some(OkItem(x.id)), ids |-> Tail(ids),
                         queried |-> Append(queried, x.id)]
                    [] x.get = "None" ->
                        UnfoldEndsAtErr(Tail(ids), Append(queried, x.id))
                    [] x.get = "Err" ->
                        [item |-> Some(ErrItem), ids |-> <<>>,
                         queried |-> Append(queried, x.id)]

\* The closure of stream::unfold, one poll of the stream: the loop reads the
\* next id, gets it, and goes on when there is no such entity.
RECURSIVE Unfold(_, _)
Unfold(ids, queried) ==
    IF ids = <<>>
    THEN [item |-> None, ids |-> <<>>, queried |-> queried]
    ELSE LET x == Head(ids)
         IN  IF x.read = "Err"
             THEN [item |-> Some(ErrItem), ids |-> Tail(ids), queried |-> queried]
             ELSE CASE x.get = "Some" ->
                        [item |-> Some(OkItem(x.id)), ids |-> Tail(ids),
                         queried |-> Append(queried, x.id)]
                    [] x.get = "None" ->
                        Unfold(Tail(ids), Append(queried, x.id))
                    [] x.get = "Err" ->
                        [item |-> Some(ErrItem), ids |-> Tail(ids),
                         queried |-> Append(queried, x.id)]

(***************************************************************************)
(* SpecStream: the relation helpers, one call or one poll of the stream    *)
(* per step.                                                               *)
(***************************************************************************)
StreamCalls ==
    [name : {"stream"}, local : Outcomes, ids : ListsOf(ExtractedIds, 0, MaxForeign)]
    \cup [name : {"stream_ids"}, local : {"Err", "Some"},
          ids : ListsOf(StreamedIds, 0, MaxForeign)]

RelationCalls ==
    [name : {"relation_map"}, local : Outcomes, ids : ListsOf(ExtractedIds, 1, 1)]
    \cup [name : {"relation_and_then"}, local : Outcomes,
          ids : ListsOf(ExtractedIds, 0, 1)]

InitStream ==
    /\ backend = NewBackend
    /\ config = [entity_types |-> EntityType, message_cache_size |-> MaxCacheSize]
    /\ last = "new"
    /\ created = NoCreated
    /\ futures = <<>>
    /\ result = Produced("none", <<>>, <<>>)
    /\ lazy = FALSE
    /\ before = NewBackend
    /\ event = NoEvent

\* stream or stream_ids is called and its future awaited.
StreamCall ==
    \E call \in StreamCalls :
        LET opened == IF call.name = "stream" THEN stream(call) ELSE stream_ids(call)
        IN  /\ result.kind # "stream"
            /\ event' = call
            /\ last' = call.name
            /\ result' = opened.produced
            /\ futures' = opened.ids
            /\ UNCHANGED <<backend, config, created, lazy, before>>

\* The stream is polled: it yields an item, or ends.
StreamNext ==
    /\ result.kind = "stream"
    /\ LET step == Unfold(futures, result.queried)
       IN  /\ futures' = step.ids
           /\ result' = IF step.item = None
                        THEN Produced("ended", result.items, step.queried)
                        ELSE Produced("stream",
                                      Append(result.items, Unwrap(step.item)),
                                      step.queried)
    /\ UNCHANGED <<backend, config, last, created, lazy, before, event>>

\* relation_map or relation_and_then is called and its future awaited.
RelationCall ==
    \E call \in RelationCalls :
        /\ result.kind # "stream"
        /\ event' = call
        /\ last' = call.name
        /\ result' = IF call.name = "relation_map"
                     THEN relation_map(call)
                     ELSE relation_and_then(call)
        /\ futures' = <<>>
        /\ UNCHANGED <<backend, config, created, lazy, before>>

NextStream ==
    \/ StreamCall
    \/ StreamNext
    \/ RelationCall

SpecStream == InitStream /\ [][NextStream]_vars

(***************************************************************************)
(* Properties of the relation helpers (checked under SpecStream).          *)
(***************************************************************************)
\* What a sequence of foreign ids must yield: an error for an id that could
\* not be read or got, the entity for an id that resolves, nothing for one
\* that does not.
Yield(ids) ==
    LET kept == SelectSeq(ids, LAMBDA x : x.read = "Err" \/ x.get # "None")
    IN  [i \in 1..Len(kept) |->
            IF kept[i].read = "Ok" /\ kept[i].get = "Some"
            THEN OkItem(kept[i].id)
            ELSE ErrItem]

\* The ids the stream has read so far.
Consumed == SubSeq(event.ids, 1, Len(event.ids) - Len(futures))

\* C21: the sequence produced by stream and stream_ids yields Ok(entity) for
\* every foreign id that resolves, skips every id whose lookup returns None,
\* yields Err inline for an id whose lookup fails and then continues with the
\* remaining ids, and ends after the last id; when the local entity is absent
\* the sequence is empty.
C21_StreamYields ==
    event.name \in {"stream", "stream_ids"} =>
        /\ (result.kind \in {"stream", "ended"} /\ event.local = "Some") =>
               /\ Len(futures) <= Len(event.ids)
               /\ futures = SubSeq(event.ids, Len(event.ids) - Len(futures) + 1,
                                   Len(event.ids))
               /\ result.items = Yield(Consumed)
        /\ (result.kind = "ended" /\ event.local = "Some") =>
               /\ futures = <<>>
               /\ result.items = Yield(event.ids)
        /\ event.local = "None" =>
               /\ result.kind \in {"stream", "ended"}
               /\ futures = <<>>
               /\ result.items = <<>>
               /\ result.queried = <<>>

\* C21 witness: a stream has ended that yielded an error and, after it, an
\* entity, and skipped an id.
C21_Witness ==
    /\ event.name \in {"stream", "stream_ids"}
    /\ result.kind = "ended"
    /\ Len(result.items) < Len(event.ids)
    /\ \E i, j \in 1..Len(result.items) :
           /\ i < j
           /\ result.items[i].kind = "Err"
           /\ result.items[j].kind = "Ok"

\* C22: relation_map and relation_and_then return Ok(None) without querying
\* the foreign repository when the local entity is absent (and, for
\* relation_and_then, when the extractor yields no foreign id); otherwise they
\* return exactly the result of foreign.get on the extracted id, and a backend
\* error from either hop is returned as the error.
C22_RelationShortCircuits ==
    event.name \in {"relation_map", "relation_and_then"} =>
        /\ event.local = "Err" =>
               /\ result.kind = "Err"
               /\ result.queried = <<>>
        /\ (event.local = "None" \/ (event.local = "Some" /\ event.ids = <<>>)) =>
               /\ result.kind = "Ok"
               /\ result.items = <<>>
               /\ result.queried = <<>>
        /\ (event.local = "Some" /\ event.ids # <<>>) =>
               /\ result.queried = <<event.ids[1].id>>
               /\ result.kind = IF event.ids[1].get = "Err" THEN "Err" ELSE "Ok"
               /\ result.items = IF event.ids[1].get = "Some"
                                 THEN <<OkItem(event.ids[1].id)>>
                                 ELSE <<>>

\* C22 witness: relation_and_then has returned for a stored local entity
\* without a foreign id.
C22_Witness ==
    /\ event.name = "relation_and_then"
    /\ event.local = "Some"
    /\ event.ids = <<>>
    /\ result.kind = "Ok"

(***************************************************************************)
(* cache.rs: the dispatch of Event::process.  Every dispatch event has an  *)
(* arm: a handler, or noop.                                                *)
(***************************************************************************)
\* Variant of noop that empties the cache.
noopClears(b) == NewBackend

\* noop: future::ok(()), no repository is touched.
noop(b) == b

\* The kinds whose arm is noop.
NoopKinds ==
    {"BanAdd", "BanRemove", "GuildIntegrationsUpdate", "InviteCreate",
     "InviteDelete", "ReactionAdd", "ReactionRemove", "ReactionRemoveAll",
     "ReactionRemoveEmoji", "TypingStart", "UnavailableGuild",
     "VoiceServerUpdate", "WebhooksUpdate", "GatewayHeartbeat",
     "GatewayHeartbeatAck", "GatewayHello", "GatewayInvalidateSession",
     "GatewayReconnect", "Resumed", "GiftCodeUpdate", "PresencesReplace",
     "ShardConnected", "ShardConnecting", "ShardDisconnected",
     "ShardIdentifying", "ShardPayload", "ShardReconnecting", "ShardResuming"}

ProcessMemberChunk(b, ev) ==
    LET b1 == upsert_bulk(b, "MEMBER", ev.members)
        b2 == upsert_bulk(b1, "USER", UsersOf(ev.members))
    IN  upsert_bulk(b2, "PRESENCE", ev.presences)

ProcessReady(b, ev) == CurrentUserUpsert(b, ev.user)

ProcessRoleUpdate(b, ev) ==
    Upsert(b, "ROLE", [ev.role EXCEPT !.guild_id = ev.guild_id])

ProcessUserUpdate(b, ev) == CurrentUserUpsert(b, ev.user)

\* Event::process: the match on the kind of the event.
EventProcess(b, e) ==
    CASE e.name \in NoopKinds -> noop(b)
      [] e.name = "ChannelCreate" -> ProcessChannelCreate(b, e.payload)
      [] e.name = "ChannelDelete" -> ProcessChannelDelete(b, e.payload)
      [] e.name = "ChannelPinsUpdate" -> ProcessChannelPinsUpdate(b, e.payload)
      [] e.name = "ChannelUpdate" -> ProcessChannelUpdate(b, e.payload)
      [] e.name = "GuildCreate" -> ProcessGuildCreate(b, e.payload)
      [] e.name = "GuildDelete" -> ProcessGuildDelete(b, e.payload)
      [] e.name = "GuildEmojisUpdate" -> ProcessGuildEmojisUpdate(b, e.payload)
      [] e.name = "GuildUpdate" -> ProcessGuildUpdate(b, e.payload)
      [] e.name = "MemberAdd" -> ProcessMemberAdd(b, e.payload)
      [] e.name = "MemberRemove" -> ProcessMemberRemove(b, e.payload)
      [] e.name = "MemberUpdate" -> ProcessMemberUpdate(b, e.payload)
      [] e.name = "MemberChunk" -> ProcessMemberChunk(b, e.payload)
      [] e.name = "MessageCreate" -> ProcessMessageCreate(b, e.payload)
      [] e.name = "MessageDelete" -> ProcessMessageDelete(b, e.payload)
      [] e.name = "MessageDeleteBulk" -> ProcessMessageDeleteBulk(b, e.payload)
      [] e.name = "MessageUpdate" -> ProcessMessageUpdate(b, e.payload)
      [] e.name = "PresenceUpdate" -> ProcessPresenceUpdate(b, e.payload)
      [] e.name = "Ready" -> ProcessReady(b, e.payload)
      [] e.name = "RoleCreate" -> ProcessRoleCreate(b, e.payload)
      [] e.name = "RoleDelete" -> ProcessRoleDelete(b, e.payload)
      [] e.name = "RoleUpdate" -> ProcessRoleUpdate(b, e.payload)
      [] e.name = "UserUpdate" -> ProcessUserUpdate(b, e.payload)
      [] e.name = "VoiceStateUpdate" -> ProcessVoiceStateUpdate(b, e.payload)

(***************************************************************************)
(* SpecDispatch: Cache::process through the dispatch, one event per step:  *)
(* the events of the member chunk, the roles and the users that fill the   *)
(* cache, and the events that are ignored.                                 *)
(***************************************************************************)
NoopEvents == UNION {EventsOf(name, {NoEvent}) : name \in NoopKinds}

DispatchEvents ==
    {e \in Events : e.name \in {"MemberChunk", "Ready", "RoleUpdate",
                                "RoleDelete", "UserUpdate", "MemberRemove"}}

\* An event with a handler is processed.
Dispatch ==
    \E e \in DispatchEvents :
        /\ backend' = EventProcess(backend, e)
        /\ Stored(backend') <= MaxStored
        /\ last' = e.name
        /\ UNCHANGED <<config, created, futures, result, lazy, before, event>>

\* An event whose arm is noop is processed.
Noop ==
    \E e \in NoopEvents :
        /\ backend' = EventProcess(backend, e)
        /\ last' = "Noop"
        /\ UNCHANGED <<config, created, futures, result, lazy, before, event>>

NextDispatch ==
    \/ Dispatch
    \/ Noop

SpecDispatch == InitEngine /\ [][NextDispatch]_vars

\* C23: processing any event kind that the dispatch treats as a no-op (bans,
\* invites, reactions, typing, integration and webhook updates, voice server
\* update, unavailable guild, heartbeats and shard lifecycle notices) returns
\* Ok and leaves every repository unchanged.
C23_NoopLeavesAll ==
    \A e \in NoopEvents :
        /\ EventProcess(backend, e) = backend
        /\ Returned(backend, e) = "Ok"

\* C23 witness: an ignored event was just processed on a cache that holds
\* entities.
C23_Witness ==
    /\ last = "Noop"
    /\ Stored(backend) >= 2

(***************************************************************************)
(* cache.rs: GuildDelete::process (unavailable = false) and                *)
(* MessageDelete::process on a backend whose reads and writes may fail.    *)
(* The handler opens the streams of the children one after the other,      *)
(* pushes a remove for each element it reads, collects the removes and     *)
(* then removes the parent.  The backend keeps its entities as the maps do,*)
(* and a stream of a guild's children yields the stored children of that   *)
(* guild.                                                                  *)
(***************************************************************************)
MaxDeleteStored == 3

RECURSIVE Ascending(_)
Ascending(S) ==
    IF S = {} THEN <<>> ELSE <<Lowest(S)>> \o Ascending(S \ {Lowest(S)})

\* The user ids of the stored guild-scoped entities of a guild.
UsersIn(b, T, g) == {id[2] : id \in Children(b, T, g)}

\* The removes of the stream of one child type of a guild.
ScopedRemoves(b, T, g) ==
    [i \in 1..Len(Ascending(UsersIn(b, T, g))) |->
        [op |-> "remove", type |-> T,
         entity |-> <<g, Ascending(UsersIn(b, T, g))[i]>>, status |-> "pending"]]

\* Variant of the handlers that pushes the remove of the parent with the
\* removes of the children.
DeleteStreamsWithParent(b, e) ==
    IF e.name = "GuildDelete"
    THEN <<BulkWrites("remove", "CHANNEL_CATEGORY",
                      Ascending(Children(b, "CHANNEL_CATEGORY", e.payload.id)))
           \o BulkWrites("remove", "CHANNEL_TEXT",
                         Ascending(Children(b, "CHANNEL_TEXT", e.payload.id)))
           \o BulkWrites("remove", "CHANNEL_VOICE",
                         Ascending(Children(b, "CHANNEL_VOICE", e.payload.id))),
           BulkWrites("remove", "EMOJI", Ascending(Children(b, "EMOJI", e.payload.id))),
           ScopedRemoves(b, "MEMBER", e.payload.id),
           ScopedRemoves(b, "PRESENCE", e.payload.id),
           BulkWrites("remove", "ROLE", Ascending(Children(b, "ROLE", e.payload.id))),
           ScopedRemoves(b, "VOICE_STATE", e.payload.id),
           BulkWrites("remove", "GUILD", <<e.payload.id>>)>>
    ELSE <<BulkWrites("remove", "ATTACHMENT", MessageAttachments(b, e.payload.id)),
           BulkWrites("remove", "MESSAGE", <<e.payload.id>>)>>

\* The streams a handler reads, in the order it opens them, each as the
\* removes it pushes for the elements: channels, emoji_ids, member_ids,
\* presence_ids, role_ids and voice_state_ids of the guild; attachments of
\* the message.
DeleteStreams(b, e) ==
    IF e.name = "GuildDelete"
    THEN <<BulkWrites("remove", "CHANNEL_CATEGORY",
                      Ascending(Children(b, "CHANNEL_CATEGORY", e.payload.id)))
           \o BulkWrites("remove", "CHANNEL_TEXT",
                         Ascending(Children(b, "CHANNEL_TEXT", e.payload.id)))
           \o BulkWrites("remove", "CHANNEL_VOICE",
                         Ascending(Children(b, "CHANNEL_VOICE", e.payload.id))),
           BulkWrites("remove", "EMOJI", Ascending(Children(b, "EMOJI", e.payload.id))),
           ScopedRemoves(b, "MEMBER", e.payload.id),
           ScopedRemoves(b, "PRESENCE", e.payload.id),
           BulkWrites("remove", "ROLE", Ascending(Children(b, "ROLE", e.payload.id))),
           ScopedRemoves(b, "VOICE_STATE", e.payload.id)>>
    ELSE <<BulkWrites("remove", "ATTACHMENT", MessageAttachments(b, e.payload.id))>>

\* cache.guilds.remove(self.id), cache.messages.remove(self.id)
DeleteParent(e) ==
    [op |-> "remove", type |-> IF e.name = "GuildDelete" THEN "GUILD" ELSE "MESSAGE",
     entity |-> e.payload.id, status |-> "pending"]

\* The read that fails, if one does: stream 0 is none; at 0 is the future of
\* the stream (awaited with ?), at j is its j-th element.
ReadFaults(streams) ==
    {[stream |-> 0, at |-> 0]}
    \cup {[stream |-> k, at |-> j] : k \in 1..Len(streams), j \in 0..MaxDeleteStored}

\* The removes pushed from stream k on: `?` returns from the handler at a
\* stream that cannot be opened; `while let Some(Ok(_))` leaves the loop at
\* the first element that is not Ok, and the handler goes on.
RECURSIVE ReadStreams(_, _, _)
ReadStreams(streams, k, fault) ==
    IF k > Len(streams)
    THEN <<>>
    ELSE IF fault.stream = k /\ fault.at = 0
    THEN <<>>
    ELSE (IF fault.stream = k
          THEN SubSeq(streams[k], 1, fault.at - 1)
          ELSE streams[k])
         \o ReadStreams(streams, k + 1, fault)

Returns(fault) == fault.stream # 0 /\ fault.at = 0

(***************************************************************************)
(* SpecDelete: the two handlers, one completion of a future per step.      *)
(***************************************************************************)
DeleteFills ==
    {[type |-> "GUILD", entity |-> [id |-> 1, name |-> "a", unavailable |-> FALSE]],
     [type |-> "EMOJI", entity |-> [id |-> 1, guild_id |-> 1]],
     [type |-> "EMOJI", entity |-> [id |-> 2, guild_id |-> 1]],
     [type |-> "ROLE", entity |-> [id |-> 1, guild_id |-> 1, name |-> "r"]],
     [type |-> "ATTACHMENT", entity |-> [id |-> 1, message_id |-> 1]],
     [type |-> "ATTACHMENT", entity |-> [id |-> 2, message_id |-> 1]],
     [type |-> "MESSAGE",
      entity |-> [id |-> 1, channel_id |-> 1, content |-> "x",
                  attachments |-> <<1, 2>>]]}

DeleteEvents ==
    EventsOf("GuildDelete", [id : {1}, unavailable : {FALSE}])
    \cup EventsOf("MessageDelete", [id : {1}])

\* An entity is stored while no event is in flight.
DeleteFill ==
    \E f \in DeleteFills :
        /\ result.kind # "none" \/ event = NoEvent
        /\ backend' = Upsert(backend, f.type, f.entity)
        /\ backend' # backend
        /\ Stored(backend') <= MaxDeleteStored
        /\ last' = "upsert"
        /\ event' = NoEvent
        /\ futures' = <<>>
        /\ result' = NoResult
        /\ UNCHANGED <<config, created, lazy, before>>

\* process is called and runs up to try_collect: the streams are read and
\* the removes pushed.  A backend that writes in the call has done so, or
\* failed, by now.
DeleteIssue ==
    \E e \in DeleteEvents : \E fault \in ReadFaults(DeleteStreams(backend, e)) :
        LET streams == DeleteStreams(backend, e)
            fs == ReadStreams(streams, 1, fault)
        IN  /\ result.kind # "none" \/ event = NoEvent
            /\ fault.stream # 0 => fault.at <= Len(streams[fault.stream])
            /\ before' = backend
            /\ event' = [name |-> e.name, payload |-> e.payload, fault |-> fault]
            /\ last' = e.name
            /\ result' = IF Returns(fault) THEN [kind |-> "Err", at |-> 0] ELSE NoResult
            /\ IF lazy
               THEN /\ futures' = IF Returns(fault) THEN DropPending(fs) ELSE fs
                    /\ backend' = backend
               ELSE \E outcome \in [1..Len(fs) -> {"done", "failed"}] :
                        /\ futures' = [i \in 1..Len(fs) |->
                                          [fs[i] EXCEPT !.status = outcome[i]]]
                        /\ backend' = ApplyWrites(backend, futures')
            /\ UNCHANGED <<config, created, lazy>>

\* try_collect polls a pending remove and it succeeds.
DeleteComplete ==
    \E i \in 1..Len(futures) :
        /\ result.kind = "none"
        /\ futures[i].status = "pending"
        /\ futures' = [futures EXCEPT ![i].status = "done"]
        /\ backend' = ApplyWrite(backend, futures[i])
        /\ UNCHANGED <<config, last, created, result, lazy, before, event>>

\* try_collect polls a pending remove and it fails: the handler returns the
\* error through ? and the removes still pending are dropped.
DeleteError ==
    \E i \in 1..Len(futures) :
        /\ result.kind = "none"
        /\ futures[i].status = "pending"
        /\ futures' = DropPending([futures EXCEPT ![i].status = "failed"])
        /\ result' = [kind |-> "Err", at |-> i]
        /\ UNCHANGED <<backend, config, last, created, lazy, before, event>>

\* try_collect resolves: to an error if a remove failed, and otherwise the
\* handler removes the parent and returns what that remove returns.
DeleteResolve ==
    /\ result.kind = "none"
    /\ event # NoEvent
    /\ \A i \in 1..Len(futures) : futures[i].status # "pending"
    /\ LET failed == {i \in 1..Len(futures) : futures[i].status = "failed"}
       IN  IF failed # {}
           THEN /\ \E i \in failed : result' = [kind |-> "Err", at |-> i]
                /\ backend' = backend
           ELSE \/ /\ result' = [kind |-> "Ok", at |-> 0]
                   /\ backend' = ApplyWrite(backend, DeleteParent(event))
                \/ /\ result' = [kind |-> "Err", at |-> Len(futures) + 1]
                   /\ backend' = backend
    /\ UNCHANGED <<config, last, created, futures, lazy, before, event>>

NextDelete ==
    \/ DeleteFill
    \/ DeleteIssue
    \/ DeleteComplete
    \/ DeleteError
    \/ DeleteResolve

SpecDelete == InitFail /\ [][NextDelete]_vars

(***************************************************************************)
(* Properties of the deletions (checked under SpecDelete).                 *)
(***************************************************************************)
\* C24: during a permanent guild deletion the guild record is removed only
\* after every child removal issued for that guild has resolved successfully;
\* if any child removal fails, the guild record is still stored when process
\* returns its error.
C24_ChildrenBeforeGuild ==
    (/\ event # NoEvent
     /\ event.name = "GuildDelete"
     /\ event.payload.id \in DOMAIN before.guilds) =>
        /\ event.payload.id \notin DOMAIN backend.guilds =>
               \A i \in 1..Len(futures) : futures[i].status = "done"
        /\ (/\ result.kind = "Err"
            /\ \E i \in 1..Len(futures) : futures[i].status = "failed") =>
               event.payload.id \in DOMAIN backend.guilds

\* C24 witness: a guild deletion has returned an error after one child was
\* removed and the remove of another failed, and the guild is stored.
C24_Witness ==
    /\ event # NoEvent
    /\ event.name = "GuildDelete"
    /\ result.kind = "Err"
    /\ \E i, j \in 1..Len(futures) :
           /\ futures[i].status = "done"
           /\ futures[j].status = "failed"
    /\ event.payload.id \in DOMAIN backend.guilds

\* C25: the engine never catches a backend error: if any repository call made
\* while processing an event fails, one element of a child-id sequence read
\* during guild deletion or of the attachment sequence read during message
\* deletion included, process returns an error.
C25_NoErrorCaught ==
    (event # NoEvent /\ result.kind = "Ok") =>
        /\ event.fault.stream = 0
        /\ \A i \in 1..Len(futures) : futures[i].status # "failed"

(***************************************************************************)
(* SpecRetention: the message repository of repository/message.rs under    *)
(* every retention bound, one upsert or remove per step; a stored message  *)
(* may be upserted again with another channel.  SpecSameChannel: the same, *)
(* where an upsert of a stored message keeps its channel.                  *)
(***************************************************************************)
MaxTracked == 3

MaxRetainedId == 4

RetentionMessages ==
    [id : 1..MaxRetainedId, channel_id : ChannelIds, content : {"x", "y"},
     attachments : {<<>>}]

InitRetention ==
    /\ backend = NewBackend
    /\ config \in [entity_types : {EntityType}, message_cache_size : 0..MaxTracked]
    /\ last = "new"
    /\ created = NoCreated
    /\ futures = <<>>
    /\ result = NoResult
    /\ lazy = FALSE
    /\ before = NewBackend
    /\ event = NoEvent

\* Whether the upsert of an entity enters the insert path and evicts there.
Evicts(b, entity) ==
    /\ entity.id \notin DOMAIN b.messages
    /\ config.message_cache_size >= 1
    /\ Cardinality(ChannelMessages(b, entity.channel_id) \cup {entity.id})
           >= config.message_cache_size

\* The label of an upsert: of a stored id, of a new id that evicts an older
\* one, of a new id that is itself the lowest, of a new id without eviction.
UpsertLabel(b, entity) ==
    IF entity.id \in DOMAIN b.messages
    THEN "upsert.stored"
    ELSE IF ~Evicts(b, entity)
    THEN "upsert"
    ELSE IF Lowest(ChannelMessages(b, entity.channel_id) \cup {entity.id}) = entity.id
    THEN "upsert.lowest"
    ELSE "upsert.evicts"

RetentionUpsert ==
    \E entity \in RetentionMessages :
        /\ backend' = MessageUpsert(backend, entity)
        /\ last' = UpsertLabel(backend, entity)
        /\ UNCHANGED <<config, created, futures, result, lazy, before, event>>

RetentionRemove ==
    \E message_id \in 1..MaxRetainedId :
        /\ backend' = MessageRemove(backend, message_id)
        /\ last' = "remove"
        /\ UNCHANGED <<config, created, futures, result, lazy, before, event>>

NextRetention ==
    \/ RetentionUpsert
    \/ RetentionRemove

SpecRetention == InitRetention /\ [][NextRetention]_vars

SameChannelUpsert ==
    \E entity \in RetentionMessages :
        /\ entity.id \in DOMAIN backend.messages =>
               backend.messages[entity.id].channel_id = entity.channel_id
        /\ backend' = MessageUpsert(backend, entity)
        /\ last' = UpsertLabel(backend, entity)
        /\ UNCHANGED <<config, created, futures, result, lazy, before, event>>

NextSameChannel ==
    \/ SameChannelUpsert
    \/ RetentionRemove

SpecSameChannel == InitRetention /\ [][NextSameChannel]_vars

(***************************************************************************)
(* Properties of the retention (C26 to C29 checked under SpecRetention,    *)
(* C30 under SpecSameChannel).                                             *)
(***************************************************************************)
\* The stored messages of a backend that another holds unchanged.
Kept(after, b) ==
    {m \in DOMAIN b.messages :
        m \in DOMAIN after.messages /\ after.messages[m] = b.messages[m]}

C27_LowestIsGone ==
    \A entity \in RetentionMessages :
        (/\ Evicts(backend, entity)
         /\ ChannelMessages(backend, entity.channel_id) # {}
         /\ \A m \in ChannelMessages(backend, entity.channel_id) : entity.id < m) =>
            MessageGet(MessageUpsert(backend, entity), entity.id) = None

\* C28: upserting a message whose id is already stored only replaces the
\* stored value: the channel's tracked-id set and the set of stored message
\* ids are unchanged and no message is evicted, whatever the current size of
\* the tracked set.
C28_StoredOnlyReplaced ==
    \A entity \in RetentionMessages :
        entity.id \in DOMAIN backend.messages =>
            LET after == MessageUpsert(backend, entity)
            IN  /\ after.channel_messages = backend.channel_messages
                /\ DOMAIN after.messages = DOMAIN backend.messages
                /\ after.messages[entity.id] = entity
                /\ \A m \in DOMAIN backend.messages \ {entity.id} :
                       after.messages[m] = backend.messages[m]

\* C28 witness: a stored message was just upserted again while the tracked
\* set of a channel is as large as the retention lets it be.
C28_Witness ==
    /\ last = "upsert.stored"
    /\ config.message_cache_size = MaxTracked
    /\ \E c \in ChannelIds :
           Cardinality(ChannelMessages(backend, c)) = MaxTracked - 1

\* C29: with a retention bound of 0, upserting messages never evicts any
\* message and never adds an id to any channel's tracked set: every upserted
\* message stays retrievable until it is explicitly removed.
C29_ZeroKeepsAll ==
    /\ [](config.message_cache_size = 0 =>
            /\ backend.channel_messages = EmptyMap
            /\ \A entity \in RetentionMessages :
                   LET after == MessageUpsert(backend, entity)
                   IN  /\ after.channel_messages = backend.channel_messages
                       /\ DOMAIN after.messages
                              = DOMAIN backend.messages \cup {entity.id}
                       /\ MessageGet(after, entity.id) = Some(entity)
                       /\ DOMAIN backend.messages \ {entity.id}
                              \subseteq Kept(after, backend))
    /\ [][config.message_cache_size = 0 =>
            \A m \in DOMAIN backend.messages :
                m \notin DOMAIN backend'.messages =>
                    /\ last' = "remove"
                    /\ DOMAIN backend'.messages = DOMAIN backend.messages \ {m}]_vars

\* C29 witness: with a bound of 0, four messages are stored, three of them
\* in one channel.
C29_Witness ==
    /\ config.message_cache_size = 0
    /\ last = "upsert"
    /\ Cardinality(DOMAIN backend.messages) = MaxRetainedId
    /\ \E c \in ChannelIds : Cardinality(StoredIn(backend, c)) >= 3

\* C30: at every state reached by message upserts, removes and evictions in
\* which a stored message never changes its channel_id, every id in a
\* channel's tracked-id set is the id of a stored message whose channel_id is
\* that channel.
C30_TrackedAreStored ==
    \A c \in DOMAIN backend.channel_messages :
        \A m \in backend.channel_messages[c] :
            /\ m \in DOMAIN backend.messages
            /\ backend.messages[m].channel_id = c

\* C30 witness: a message was just removed, and its channel still tracks
\* two others.
C30_Witness ==
    /\ last = "remove"
    /\ \E c \in ChannelIds : Cardinality(ChannelMessages(backend, c)) = 2

(***************************************************************************)
(* Properties of the pins patch (checked under SpecChannel).               *)
(***************************************************************************)
\* C31: a ChannelPinsUpdate whose last_pin_timestamp is absent (None) does
\* not overwrite the last_pin_timestamp already stored on the target group,
\* text channel or private channel.
C31_AbsentPinKeepsStored ==
    \A id \in ChannelIds :
        PinsTarget(backend, id) # "absent" =>
            LET T == PinsTarget(backend, id)
                after == ProcessChannelPinsUpdate(backend,
                             [channel_id |-> id, last_pin_timestamp |-> None])
            IN  Unwrap(Get(after, T, id)).last_pin_timestamp
                    = Unwrap(Get(backend, T, id)).last_pin_timestamp

(***************************************************************************)
(* SpecRace: two Cache::process calls in flight at once, each a sequence   *)
(* of map operations (a get, then the upsert built from what the get       *)
(* returned), interleaved at the level of one map operation.  Both events  *)
(* read, modify and write back the same stored entity: a channel of id 1   *)
(* (MessageCreate, ChannelPinsUpdate) or the member (1, 1) (MemberUpdate). *)
(***************************************************************************)
RaceProbes == <<"CHANNEL_GROUP", "CHANNEL_TEXT", "CHANNEL_PRIVATE">>

\* The position of a handler that has returned: after the probes of the
\* kinds of channel and the upsert of the message.
RaceDonePc == Len(RaceProbes) + 2

RaceChannelEvents ==
    {[name |-> "MessageCreate", payload |-> ev] :
        ev \in {m \in MessageCreates : m.channel_id = 1 /\ Len(m.attachments) <= 1}}
    \cup {[name |-> "ChannelPinsUpdate", payload |-> ev] :
            ev \in {p \in PinsUpdates : p.channel_id = 1}}

RaceMemberEvents ==
    {[name |-> "MemberUpdate", payload |-> ev] :
        ev \in {m \in MemberUpdates : m.guild_id = 1 /\ m.user.id = 1}}

RacePairs ==
    (RaceChannelEvents \X RaceChannelEvents)
        \cup (RaceMemberEvents \X RaceMemberEvents)

\* The backends the two calls start on: empty, or holding the one entity
\* both events are about.
RaceBackends ==
    {NewBackend}
    \cup {Upsert(NewBackend, "CHANNEL_GROUP", e) :
            e \in {x \in Entities("CHANNEL_GROUP") : x.id = 1}}
    \cup {Upsert(NewBackend, "CHANNEL_PRIVATE", e) :
            e \in {x \in Entities("CHANNEL_PRIVATE") : x.id = 1}}
    \cup {Upsert(NewBackend, "CHANNEL_TEXT", e) :
            e \in {x \in Entities("CHANNEL_TEXT") : x.id = 1 /\ x.guild_id = Some(1)}}
    \cup {Upsert(NewBackend, "MEMBER", PlainMember(1, 1))}

\* The repository a call is about to read or write, and the key it uses.
RaceType(p) == IF p.ev.name = "MemberUpdate" THEN "MEMBER" ELSE RaceProbes[p.pc]

RaceKey(p) ==
    IF p.ev.name = "MemberUpdate"
    THEN <<p.ev.payload.guild_id, p.ev.payload.user.id>>
    ELSE p.ev.payload.channel_id

\* The entity a handler builds from the entity its get returned.
RacePatched(ev, entity) ==
    CASE ev.name = "MessageCreate" ->
            [entity EXCEPT !.last_message_id = Some(ev.payload.id)]
      [] ev.name = "ChannelPinsUpdate" ->
            [entity EXCEPT !.last_pin_timestamp = ev.payload.last_pin_timestamp]
      [] ev.name = "MemberUpdate" -> MemberEntityUpdate(ev.payload, entity)

\* Variant of the write that reads the entity again when it writes.
RaceWriteFresh(b, p) ==
    LET T == RaceType(p)
        now == Unwrap(Get(b, T, RaceKey(p)))
        b1 == IF p.ev.name = "MemberUpdate"
              THEN Upsert(b, "USER", p.ev.payload.user) ELSE b
    IN  Upsert(b1, T, RacePatched(p.ev, now))

\* The upsert of a handler: the entity it read, with its own change.
\* MemberUpdate writes the user of the event next to it.
RaceWrite(b, p) ==
    LET T == RaceType(p)
        b1 == IF p.ev.name = "MemberUpdate"
              THEN Upsert(b, "USER", p.ev.payload.user) ELSE b
    IN  Upsert(b1, T, RacePatched(p.ev, Unwrap(p.read)))

\* Where a handler goes on after a get that found nothing.
RaceAfterMiss(p) ==
    CASE p.ev.name = "MemberUpdate" -> RaceDonePc
      [] p.ev.name = "ChannelPinsUpdate" ->
            IF p.pc = 3 THEN RaceDonePc ELSE p.pc + 1
      [] p.ev.name = "MessageCreate" -> p.pc + 1

\* Where a handler goes on after its upsert: ChannelPinsUpdate returns,
\* MessageCreate probes the next kind of channel.
RaceAfterWrite(p) ==
    IF p.ev.name = "MessageCreate" THEN p.pc + 1 ELSE RaceDonePc

InitRace ==
    /\ config = [entity_types |-> EntityType, message_cache_size |-> MaxCacheSize]
    /\ backend \in RaceBackends
    /\ last = "new"
    /\ created = NoCreated
    /\ \E pair \in RacePairs :
          /\ event = [name |-> "race", payload |-> pair]
          /\ futures = <<[ev |-> pair[1], pc |-> 1, read |-> None],
                         [ev |-> pair[2], pc |-> 1, read |-> None]>>
    /\ result = NoResult
    /\ lazy = FALSE
    /\ before = backend

RaceGet ==
    \E i \in 1..2 :
        LET p == futures[i] IN
        /\ p.pc <= 3
        /\ p.read = None
        /\ LET got == Get(backend, RaceType(p), RaceKey(p))
           IN  futures' = [futures EXCEPT ![i] =
                              IF got = None
                              THEN [p EXCEPT !.pc = RaceAfterMiss(p)]
                              ELSE [p EXCEPT !.read = got]]
        /\ last' = "get"
        /\ UNCHANGED <<backend, config, created, result, lazy, before, event>>

RaceUpsert ==
    \E i \in 1..2 :
        LET p == futures[i] IN
        /\ p.pc <= 3
        /\ p.read # None
        /\ backend' = RaceWrite(backend, p)
        /\ futures' = [futures EXCEPT ![i] =
                          [p EXCEPT !.pc = RaceAfterWrite(p), !.read = None]]
        /\ result' = [kind |-> "upsert", at |-> i, type |-> RaceType(p),
                      key |-> RaceKey(p), read |-> Unwrap(p.read)]
        /\ last' = "upsert"
        /\ UNCHANGED <<config, created, lazy, before, event>>

\* The end of MessageCreate: the attachments and the message.
RaceMessage ==
    \E i \in 1..2 :
        LET p == futures[i]
            ev == p.ev.payload IN
        /\ p.pc = 4
        /\ backend' = Upsert(upsert_bulk(backend, "ATTACHMENT",
                                         AttachmentsOf(ev.id, ev.attachments)),
                             "MESSAGE",
                             [id |-> ev.id, channel_id |-> ev.channel_id,
                              content |-> ev.content,
                              attachments |-> ev.attachments])
        /\ futures' = [futures EXCEPT ![i] = [p EXCEPT !.pc = RaceDonePc]]
        /\ last' = "message"
        /\ UNCHANGED <<config, created, result, lazy, before, event>>

NextRace ==
    \/ RaceGet
    \/ RaceUpsert
    \/ RaceMessage

SpecRace == InitRace /\ [][NextRace]_vars

(***************************************************************************)
(* Properties of concurrent processing (checked under SpecRace).           *)
(***************************************************************************)
RaceDone == \A i \in 1..2 : futures[i].pc = RaceDonePc

\* The entity the two events are about, in whichever repository holds it.
RaceEntity(b) ==
    <<Get(b, "CHANNEL_GROUP", 1), Get(b, "CHANNEL_TEXT", 1),
      Get(b, "CHANNEL_PRIVATE", 1), Get(b, "MEMBER", <<1, 1>>)>>

\* The entity after the two events were processed one after the other.
RaceSerial ==
    {RaceEntity(EventProcess(EventProcess(before, event.payload[1]),
                             event.payload[2])),
     RaceEntity(EventProcess(EventProcess(before, event.payload[2]),
                             event.payload[1]))}

\* The entity after only one of the two events was processed.
RaceAlone == {RaceEntity(EventProcess(before, event.payload[i])) : i \in 1..2}

\* C32 (as stated): when two events that each read, modify and write back
\* the same stored entity are processed concurrently, the final stored
\* entity equals the result of processing the two in some serial order.
C32_SerialOutcome ==
    RaceDone => RaceEntity(backend) \in RaceSerial

\* C32 (amended): after two such events were processed concurrently, the
\* stored entity is what the handler whose upsert ran last wrote, the entity
\* it had read with its own change alone; that is the result of a serial
\* order when it read after the other's write, and else the result of
\* processing that one event only (the other event's change is lost).
C32_LastWriterWins ==
    (RaceDone /\ result.kind = "upsert") =>
        /\ Get(backend, result.type, result.key)
               = Some(RacePatched(futures[result.at].ev, result.read))
        /\ RaceEntity(backend) \in RaceSerial \cup RaceAlone

\* C32 witness: both calls are done, both wrote the entity, and the stored
\* entity is not the result of any serial order.
C32_Witness ==
    /\ RaceDone
    /\ result.kind = "upsert"
    /\ RaceEntity(backend) \notin RaceSerial
    /\ RaceEntity(backend) \in RaceAlone

(***************************************************************************)
(* SpecOrder: one GuildCreate or MemberChunk processed alone on a backend  *)
(* that does not fail.  On a backend whose futures write when polled the   *)
(* sibling writes complete in any order, one completion per step.          *)
(***************************************************************************)
\* The members and presences of a chunk are maps keyed by user id: one
\* element per user, all of one guild.
MemberChunks ==
    {[members |-> [i \in 1..Len(Ascending(M)) |-> PlainMember(g, Ascending(M)[i])],
      presences |-> [i \in 1..Len(Ascending(P)) |->
                        [guild_id |-> g, user_id |-> Ascending(P)[i],
                         status |-> "online"]]] :
        g \in GuildIds, M \in SUBSET UserIds, P \in SUBSET UserIds}

OrderEvents ==
    EventsOf("GuildCreate", GuildCreates) \cup EventsOf("MemberChunk", MemberChunks)

\* Variant of the pushes with a second, different write of each user.
MemberChunkWritesUserTwice(ev) ==
    WritesOf("members", "MEMBER", ev.members)
    \o WritesOf("users", "USER", UsersOf(ev.members))
    \o WritesOf("users", "USER",
                [i \in 1..Len(ev.members) |->
                    [id |-> ev.members[i].user_id, name |-> "v"]])
    \o WritesOf("presences", "PRESENCE", ev.presences)

\* The futures MemberChunk::process pushes, in the order it pushes them.
MemberChunkWrites(ev) ==
    WritesOf("members", "MEMBER", ev.members)
    \o WritesOf("users", "USER", UsersOf(ev.members))
    \o WritesOf("presences", "PRESENCE", ev.presences)

OrderWrites(e) ==
    IF e.name = "GuildCreate"
    THEN GuildCreateWrites(e.payload)
    ELSE MemberChunkWrites(e.payload)

InitOrder ==
    /\ config = [entity_types |-> EntityType, message_cache_size |-> MaxCacheSize]
    /\ backend \in {NewBackend}
                       \cup {Upsert(NewBackend, "USER", u) : u \in Entities("USER")}
    /\ last = "new"
    /\ created = NoCreated
    /\ futures = <<>>
    /\ result = NoResult
    /\ lazy \in BOOLEAN
    /\ before = backend
    /\ event = NoEvent

\* process is called: every upsert is called and its future pushed.  A
\* backend that writes in the call has written in the order of the calls.
OrderIssue ==
    \E e \in OrderEvents :
        LET fs == OrderWrites(e)
        IN  /\ event = NoEvent
            /\ event' = e
            /\ last' = e.name
            /\ IF lazy
               THEN /\ futures' = fs
                    /\ backend' = backend
               ELSE /\ futures' = [i \in 1..Len(fs) |->
                                      [fs[i] EXCEPT !.status = "done"]]
                    /\ backend' = ApplyDone(backend, futures')
            /\ UNCHANGED <<config, created, result, lazy, before>>

NextOrder ==
    \/ OrderIssue
    \/ FailComplete
    \/ FailResolve

SpecOrder == InitOrder /\ [][NextOrder]_vars

(***************************************************************************)
(* Properties of the order of sibling writes (checked under SpecOrder).    *)
(***************************************************************************)
\* C33: for every single event processed alone on a backend that does not
\* fail, the final cache state is the same for every order in which the
\* event's concurrently issued sibling writes complete: it is the state the
\* writes leave when applied in the order they were pushed.
C33_OrderIndependent ==
    result.kind = "Ok" => backend = EventProcess(before, event)

\* C33 witness: a MemberChunk with a member, its user and a presence, three
\* sibling writes, resolved on a backend that writes at completion (so that
\* the state was reached through each of the six completion orders), and
\* the cache holds what it wrote.
C33_Witness ==
    /\ lazy
    /\ result.kind = "Ok"
    /\ event.name = "MemberChunk"
    /\ Len(futures) >= 3
    /\ backend # before
    /\ DOMAIN backend.members # {}
    /\ DOMAIN backend.presences # {}

(***************************************************************************)
(* SpecUpsert: two upserts of one repository of the in-memory backend      *)
(* running at once (two threads).  An upsert is the check of the type      *)
(* gate, then one DashMap insert, which holds the lock of the entry's      *)
(* shard for the whole replacement.                                        *)
(***************************************************************************)
UpsertTypes == {"MEMBER", "USER", "GUILD"}

UpsertCalls ==
    UNION {[type : {T}, first : Entities(T), second : Entities(T)] :
              T \in UpsertTypes}

InitUpsert ==
    /\ config \in [entity_types : {EntityType, EntityType \ {"MEMBER"}},
                   message_cache_size : {MaxCacheSize}]
    /\ \E call \in UpsertCalls :
          /\ event = [name |-> "upsert", type |-> call.type,
                      payload |-> <<call.first, call.second>>]
          /\ backend \in {NewBackend}
                 \cup {RepoUpsert(NewBackend, call.type, e) :
                          e \in Entities(call.type)}
    /\ last = "new"
    /\ created = NoCreated
    /\ futures = <<[pc |-> "gate"], [pc |-> "gate"]>>
    /\ result = NoResult
    /\ lazy = FALSE
    /\ before = backend

\* The check of the entity-type flag: a disabled type returns at once.
UpsertGate ==
    \E i \in 1..2 :
        /\ futures[i].pc = "gate"
        /\ futures' = [futures EXCEPT ![i].pc =
                          IF Enabled(event.type) THEN "insert" ELSE "done"]
        /\ last' = "gate"
        /\ UNCHANGED <<backend, config, created, result, lazy, before, event>>

\* E::map(&self.0).insert(entity.id(), entity).
UpsertInsert ==
    \E i \in 1..2 :
        LET e == event.payload[i] IN
        /\ futures[i].pc = "insert"
        /\ backend' = [backend EXCEPT ![MapOf(event.type)] =
                          Insert(@, Id(event.type, e), e)]
        /\ futures' = [futures EXCEPT ![i].pc = "done"]
        /\ result' = [kind |-> "insert", at |-> i]
        /\ last' = "insert"
        /\ UNCHANGED <<config, created, lazy, before, event>>

NextUpsert ==
    \/ UpsertGate
    \/ UpsertInsert

SpecUpsert == InitUpsert /\ [][NextUpsert]_vars

(***************************************************************************)
(* Properties of concurrent upserts (checked under SpecUpsert).            *)
(***************************************************************************)
\* C34: when two upserts of the same entity id run concurrently, the value
\* stored afterwards is exactly one of the two upserted values (that of the
\* insert that ran last, never a mix of fields), and concurrent upserts of
\* different ids of the same type both take effect.
C34_LastWriterWins ==
    (/\ \A i \in 1..2 : futures[i].pc = "done"
     /\ Enabled(event.type)) =>
        LET T == event.type
            e1 == event.payload[1]
            e2 == event.payload[2]
        IN  /\ Id(T, e1) = Id(T, e2) =>
                /\ Get(backend, T, Id(T, e1)) = Some(event.payload[result.at])
                /\ Get(backend, T, Id(T, e1)) \in {Some(e1), Some(e2)}
            /\ Id(T, e1) # Id(T, e2) =>
                /\ Get(backend, T, Id(T, e1)) = Some(e1)
                /\ Get(backend, T, Id(T, e2)) = Some(e2)
            /\ \A id \in Ids(T) \ {Id(T, e1), Id(T, e2)} :
                   Get(backend, T, id) = Get(before, T, id)

\* C34 witness: two upserts of the same member with profiles that differ in
\* several fields are done, over a stored member, and the second call's
\* insert ran first.
C34_Witness ==
    /\ \A i \in 1..2 : futures[i].pc = "done"
    /\ event.type = "MEMBER"
    /\ Enabled("MEMBER")
    /\ Id("MEMBER", event.payload[1]) = Id("MEMBER", event.payload[2])
    /\ event.payload[1].nick # event.payload[2].nick
    /\ event.payload[1].deaf # event.payload[2].deaf
    /\ Get(before, "MEMBER", Id("MEMBER", event.payload[1])) # None
    /\ result.kind = "insert"
    /\ result.at = 1

(***************************************************************************)
(* Properties of the message patch (checked under SpecMessage).            *)
(***************************************************************************)
\* C35: a MessageUpdate for a stored message replaces each field the patch
\* carries (here the content and the attachment list) and keeps the stored
\* value of every field the patch leaves unset; the message keeps its id and
\* stays in the message repository, and no other message changes.
C35_MessagePatch ==
    \A ev \in MessageUpdates :
        Get(backend, "MESSAGE", ev.id) # None =>
            LET after == ProcessMessageUpdate(backend, ev)
                old == Unwrap(Get(backend, "MESSAGE", ev.id))
            IN  /\ Get(after, "MESSAGE", ev.id) # None
                /\ LET new == Unwrap(Get(after, "MESSAGE", ev.id))
                   IN  /\ new.id = old.id
                       /\ new.content = IF ev.content = None THEN old.content
                                        ELSE Unwrap(ev.content)
                       /\ new.attachments = IF ev.attachments = None
                                            THEN old.attachments
                                            ELSE Unwrap(ev.attachments)
                       /\ new.channel_id = ev.channel_id
                       /\ \A f \in DOMAIN old \ {"content", "attachments",
                                                 "channel_id"} : new[f] = old[f]
                /\ DOMAIN after.messages = DOMAIN backend.messages
                /\ \A m \in DOMAIN backend.messages \ {ev.id} :
                       after.messages[m] = backend.messages[m]

\* C35 witness: a MessageUpdate just replaced the content of a stored
\* message and left its attachment list, which is not empty, as it was.
C35_Witness ==
    /\ last = "MessageUpdate"
    /\ \E m \in DOMAIN backend.messages :
           /\ backend.messages[m].content = "y"
           /\ backend.messages[m].attachments # <<>>

(***************************************************************************)
(* SpecChannelMessage: the channel events and the message events on one    *)
(* cache, one event a step, so that messages are created in, and deleted   *)
(* from, channels that are stored, and channels are deleted under their    *)
(* messages.                                                               *)
(***************************************************************************)
MaxChannelMessageStored == 3

LastMessageTypes == {"CHANNEL_GROUP", "CHANNEL_TEXT", "CHANNEL_PRIVATE"}

\* The channels of the kinds that carry a last message, with the first id
\* (the second id is that of a channel that is never stored).
MessageChannelEvents ==
    {ev \in ChannelEvents :
        /\ ev.kind \in LastMessageTypes
        /\ ev.entity.id = 1
        /\ ev.kind = "CHANNEL_TEXT" => ev.entity.guild_id = Some(1)}

MessageChannelCreate ==
    \E ev \in MessageChannelEvents :
        /\ backend' = ProcessChannelCreate(backend, ev)
        /\ Stored(backend') <= MaxChannelMessageStored
        /\ last' = "ChannelCreate"
        /\ UNCHANGED <<config, created, futures, result, lazy, before, event>>

MessageChannelDelete ==
    \E ev \in MessageChannelEvents :
        /\ backend' = ProcessChannelDelete(backend, ev)
        /\ last' = IF Get(backend, ev.kind, ev.entity.id) # None
                   THEN "ChannelDelete" ELSE "ChannelDelete.absent"
        /\ UNCHANGED <<config, created, futures, result, lazy, before, event>>

ChannelMessageCreate ==
    \E ev \in {m \in MessageCreates : Len(m.attachments) <= 1} :
        /\ backend' = ProcessMessageCreate(backend, ev)
        /\ Stored(backend') <= MaxChannelMessageStored
        /\ last' = IF DOMAIN backend.messages \subseteq DOMAIN backend'.messages
                   THEN "MessageCreate" ELSE "MessageCreate.evicts"
        /\ UNCHANGED <<config, created, futures, result, lazy, before, event>>

NextChannelMessage ==
    \/ MessageChannelCreate
    \/ MessageChannelDelete
    \/ ChannelPinsUpdate
    \/ ChannelMessageCreate
    \/ MessageDelete

SpecChannelMessage == InitEngine /\ [][NextChannelMessage]_vars

(***************************************************************************)
(* Properties of MessageCreate (checked under SpecChannelMessage).         *)
(***************************************************************************)
\* C36: a MessageCreate stores the message and one attachment entity per
\* attachment of the payload, and sets last_message_id to the new message
\* id on the stored group, text channel or private channel whose id is the
\* message's channel_id, leaving that channel's other fields and every
\* other channel unchanged; if no such channel is stored, none is created.
C36_MessageCreateStores ==
    \A ev \in MessageCreates :
        LET after == ProcessMessageCreate(backend, ev)
        IN  /\ Get(after, "MESSAGE", ev.id)
                   = Some([id |-> ev.id, channel_id |-> ev.channel_id,
                           content |-> ev.content,
                           attachments |-> ev.attachments])
            /\ \A i \in 1..Len(ev.attachments) :
                   Get(after, "ATTACHMENT", ev.attachments[i])
                       = Some([id |-> ev.attachments[i], message_id |-> ev.id])
            /\ DOMAIN after.attachments
                   = DOMAIN backend.attachments
                         \cup {ev.attachments[i] : i \in 1..Len(ev.attachments)}
            /\ \A T \in LastMessageTypes :
                   /\ DOMAIN after[MapOf(T)] = DOMAIN backend[MapOf(T)]
                   /\ \A id \in DOMAIN backend[MapOf(T)] :
                          after[MapOf(T)][id]
                              = IF id = ev.channel_id
                                THEN [backend[MapOf(T)][id] EXCEPT
                                         !.last_message_id = Some(ev.id)]
                                ELSE backend[MapOf(T)][id]
            /\ \A T \in {"CHANNEL_VOICE", "CHANNEL_CATEGORY"} :
                   after[MapOf(T)] = backend[MapOf(T)]

\* C36 witness: a MessageCreate with an attachment was just processed for a
\* stored channel that had a pins timestamp: the channel has the message as
\* its last and kept the timestamp, and the message and attachment are
\* stored.
C36_Witness ==
    /\ last = "MessageCreate"
    /\ \E T \in LastMessageTypes : \E c \in DOMAIN backend[MapOf(T)] :
           /\ backend[MapOf(T)][c].last_message_id # None
           /\ backend[MapOf(T)][c].last_pin_timestamp = Some("p")
           /\ \E m \in DOMAIN backend.messages :
                  /\ backend[MapOf(T)][c].last_message_id = Some(m)
                  /\ backend.messages[m].channel_id = c
                  /\ backend.messages[m].attachments # <<>>
                  /\ \A i \in 1..Len(backend.messages[m].attachments) :
                         backend.messages[m].attachments[i]
                             \in DOMAIN backend.attachments

(***************************************************************************)
(* SpecRelation: the relation accessors of the in-memory backend next to   *)
(* the default implementations of the repository traits, on caches filled  *)
(* through the repositories with entities that refer to one another.       *)
(***************************************************************************)
MaxRelationStored == 3

\* The accessors whose foreign ids the modelled entities carry: the helper
\* the default is built from, the repository of the entity, the repository
\* of the related entity, and the field the extractor closure reads.
Relations ==
    {[name |-> "attachment.message", helper |-> "relation_map",
      local |-> "ATTACHMENT", foreign |-> "MESSAGE", field |-> "message_id"],
     [name |-> "emoji.guild", helper |-> "relation_map",
      local |-> "EMOJI", foreign |-> "GUILD", field |-> "guild_id"],
     [name |-> "role.guild", helper |-> "relation_map",
      local |-> "ROLE", foreign |-> "GUILD", field |-> "guild_id"],
     [name |-> "member.hoisted_role", helper |-> "relation_and_then",
      local |-> "MEMBER", foreign |-> "ROLE", field |-> "hoisted_role_id"],
     [name |-> "group.last_message", helper |-> "relation_and_then",
      local |-> "CHANNEL_GROUP", foreign |-> "MESSAGE", field |-> "last_message_id"],
     [name |-> "text_channel.last_message", helper |-> "relation_and_then",
      local |-> "CHANNEL_TEXT", foreign |-> "MESSAGE", field |-> "last_message_id"],
     [name |-> "text_channel.guild", helper |-> "relation_and_then",
      local |-> "CHANNEL_TEXT", foreign |-> "GUILD", field |-> "guild_id"],
     [name |-> "private_channel.recipient", helper |-> "relation_and_then",
      local |-> "CHANNEL_PRIVATE", foreign |-> "USER", field |-> "recipient_id"],
     [name |-> "member.roles", helper |-> "stream",
      local |-> "MEMBER", foreign |-> "ROLE", field |-> "role_ids"],
     [name |-> "message.attachments", helper |-> "stream",
      local |-> "MESSAGE", foreign |-> "ATTACHMENT", field |-> "attachments"],
     [name |-> "group.recipients", helper |-> "stream",
      local |-> "CHANNEL_GROUP", foreign |-> "USER", field |-> "recipient_ids"]}

\* The entities written: each refers to ids that may or may not be stored.
RelationEntities(T) ==
    CASE T = "MEMBER" ->
            {[PlainMember(1, 1) EXCEPT !.role_ids = <<1, 2>>,
                                       !.hoisted_role_id = Some(2)],
             PlainMember(1, 1)}
      [] T = "MESSAGE" ->
            {[id |-> 1, channel_id |-> 1, content |-> "x", attachments |-> l] :
                l \in {<<>>, <<1, 2>>}}
      [] T \in {"CHANNEL_GROUP", "CHANNEL_PRIVATE"} ->
            {[e EXCEPT !.last_message_id = l] :
                e \in {x \in Entities(T) : x.id = 1}, l \in {None, Some(1)}}
      [] T = "CHANNEL_TEXT" ->
            {[e EXCEPT !.last_message_id = l] :
                e \in {x \in Entities(T) : x.id = 1 /\ x.guild_id = Some(1)},
                l \in {None, Some(1)}}
      [] T \in {"ROLE", "EMOJI"} -> {e \in Entities(T) : e.guild_id = 1}
      [] T = "GUILD" -> {e \in Entities(T) : e.id = 1 /\ ~e.unavailable}
      [] T = "USER" -> {UserOf(1)}
      [] T = "ATTACHMENT" -> Entities(T)

RelationTypes ==
    {"ATTACHMENT", "CHANNEL_GROUP", "CHANNEL_PRIVATE", "CHANNEL_TEXT", "EMOJI",
     "GUILD", "MEMBER", "MESSAGE", "ROLE", "USER"}

\* The ids the extractor closure of a relation takes from an entity.
RelationIds(r, entity) ==
    CASE r.helper = "relation_map" -> <<entity[r.field]>>
      [] r.helper = "relation_and_then" ->
            IF entity[r.field] = None THEN <<>> ELSE <<Unwrap(entity[r.field])>>
      [] r.helper = "stream" -> entity[r.field]

\* The call a default implementation makes on a backend: what the get of
\* the entity and the gets of the related ids give there.  The in-memory
\* repositories never return an error.
RelationCallOn(b, r, id) ==
    LET local == Get(b, r.local, id)
        ids == IF local = None THEN <<>> ELSE RelationIds(r, Unwrap(local))
    IN  [name |-> r.helper,
         local |-> IF local = None THEN "None" ELSE "Some",
         ids |-> [i \in 1..Len(ids) |->
                     [read |-> "Ok", id |-> ids[i],
                      get |-> IF Get(b, r.foreign, ids[i]) = None
                              THEN "None" ELSE "Some"]]]

\* The items of a stream polled until it ends.
RECURSIVE Drain(_)
Drain(ids) ==
    LET step == Unfold(ids, <<>>)
    IN  IF step.item = None
        THEN <<>>
        ELSE <<Unwrap(step.item)>> \o Drain(step.ids)

\* The entities a default implementation returns: those of the items the
\* helper produced.
DefaultRelation(b, r, id) ==
    LET call == RelationCallOn(b, r, id)
        items == CASE r.helper = "relation_map" -> relation_map(call).items
                   [] r.helper = "relation_and_then" ->
                        relation_and_then(call).items
                   [] r.helper = "stream" -> Drain(stream(call).ids)
    IN  [i \in 1..Len(items) |-> Unwrap(Get(b, r.foreign, items[i].id))]

\* Variant of the override that ends at the first id that is not stored.
InMemoryRelationStops(b, r, id) ==
    LET local == Lookup(b[MapOf(r.local)], id)
        ids == IF local = None THEN <<>> ELSE RelationIds(r, Unwrap(local))
        stored == {i \in 1..Len(ids) : ids[i] \in DOMAIN b[MapOf(r.foreign)]}
        upto == IF \E i \in 1..Len(ids) : i \notin stored
                THEN (CHOOSE i \in 1..Len(ids) :
                         i \notin stored /\ \A j \in 1..(i - 1) : j \in stored) - 1
                ELSE Len(ids)
    IN  [i \in 1..upto |-> b[MapOf(r.foreign)][ids[i]]]

\* The override of the in-memory backend: the entity is looked up in its
\* map, the related ids in theirs, and the ids not stored are left out.
InMemoryRelation(b, r, id) ==
    LET local == Lookup(b[MapOf(r.local)], id)
        ids == IF local = None THEN <<>> ELSE RelationIds(r, Unwrap(local))
        found == SelectSeq(ids, LAMBDA f : f \in DOMAIN b[MapOf(r.foreign)])
    IN  [i \in 1..Len(found) |-> b[MapOf(r.foreign)][found[i]]]

\* MessageRepository::channel, default and override alike: the channel id
\* of the message probed as text channel, private channel, then group.
MessageChannel(b, message_id) ==
    LET message == Get(b, "MESSAGE", message_id)
    IN  IF message = None THEN <<>>
        ELSE LET c == Unwrap(message).channel_id
             IN  IF Get(b, "CHANNEL_TEXT", c) # None
                 THEN <<[kind |-> "CHANNEL_TEXT",
                         entity |-> Unwrap(Get(b, "CHANNEL_TEXT", c))]>>
                 ELSE IF Get(b, "CHANNEL_PRIVATE", c) # None
                 THEN <<[kind |-> "CHANNEL_PRIVATE",
                         entity |-> Unwrap(Get(b, "CHANNEL_PRIVATE", c))]>>
                 ELSE IF Get(b, "CHANNEL_GROUP", c) # None
                 THEN <<[kind |-> "CHANNEL_GROUP",
                         entity |-> Unwrap(Get(b, "CHANNEL_GROUP", c))]>>
                 ELSE <<>>

InMemoryMessageChannel(b, message_id) ==
    IF message_id \notin DOMAIN b.messages THEN <<>>
    ELSE LET c == b.messages[message_id].channel_id
         IN  IF c \in DOMAIN b.channels_text
             THEN <<[kind |-> "CHANNEL_TEXT", entity |-> b.channels_text[c]]>>
             ELSE IF c \in DOMAIN b.channels_private
             THEN <<[kind |-> "CHANNEL_PRIVATE", entity |-> b.channels_private[c]]>>
             ELSE IF c \in DOMAIN b.groups
             THEN <<[kind |-> "CHANNEL_GROUP", entity |-> b.groups[c]]>>
             ELSE <<>>

RelationUpsert ==
    \E T \in RelationTypes : \E e \in RelationEntities(T) :
        /\ backend' = Upsert(backend, T, e)
        /\ Stored(backend') <= MaxRelationStored
        /\ last' = "upsert"
        /\ result' = NoResult
        /\ event' = NoEvent
        /\ UNCHANGED <<config, created, futures, lazy, before>>

\* An accessor of the in-memory backend is called and its stream collected.
RelationAccess ==
    \E r \in Relations : \E id \in Ids(r.local) :
        /\ event' = [name |-> r.name, payload |-> id]
        /\ result' = [kind |-> r.helper, at |-> 0,
                      items |-> InMemoryRelation(backend, r, id),
                      ids |-> RelationCallOn(backend, r, id).ids]
        /\ last' = "access"
        /\ UNCHANGED <<backend, config, created, futures, lazy, before>>

MessageChannelAccess ==
    \E id \in MessageIds :
        /\ event' = [name |-> "message.channel", payload |-> id]
        /\ result' = [kind |-> "channel", at |-> 0,
                      items |-> InMemoryMessageChannel(backend, id),
                      ids |-> <<>>]
        /\ last' = "access"
        /\ UNCHANGED <<backend, config, created, futures, lazy, before>>

NextRelation ==
    \/ RelationUpsert
    \/ RelationAccess
    \/ MessageChannelAccess

SpecRelation == InitEngine /\ [][NextRelation]_vars

Listed(b, message_id) ==
    {b.messages[message_id].attachments[k] :
        k \in 1..Len(b.messages[message_id].attachments)}

\* C38: the eviction of the retention removes only the evicted message; the
\* attachment entities it listed stay stored, and a later MessageDelete for
\* the evicted id does not remove them.
C38_EvictionLeavesAttachments ==
    \A ev \in MessageCreates :
        LET after == ProcessMessageCreate(backend, ev)
            evicted == DOMAIN backend.messages \ DOMAIN after.messages
        IN  /\ Cardinality(evicted) <= 1
            /\ \A m \in DOMAIN backend.messages \ (evicted \cup {ev.id}) :
                   after.messages[m] = backend.messages[m]
            /\ DOMAIN backend.attachments \subseteq DOMAIN after.attachments
            /\ \A m \in evicted :
                   LET later == ProcessMessageDelete(after, [id |-> m])
                   IN  /\ Listed(backend, m) \cap DOMAIN backend.attachments
                              \subseteq DOMAIN after.attachments
                       /\ later.attachments = after.attachments
                       /\ Listed(backend, m) \cap DOMAIN backend.attachments
                              \subseteq DOMAIN later.attachments

\* C38 witness: a MessageCreate just evicted a message, and an attachment
\* of a message that is no longer stored is still stored.
C38_Witness ==
    /\ last = "MessageCreate.evicts"
    /\ \E a \in DOMAIN backend.attachments :
           backend.attachments[a].message_id \notin DOMAIN backend.messages

\* C39: a ChannelDelete removes only the channel entity: the messages
\* stored for that channel, their attachments and the channel's tracked
\* message-id set, like every other map, are left unchanged.
C39_ChannelDeleteOnlyChannel ==
    \A ev \in ChannelEvents :
        LET after == ProcessChannelDelete(backend, ev)
            map == MapOf(ev.kind)
        IN  /\ after.messages = backend.messages
            /\ after.attachments = backend.attachments
            /\ after.channel_messages = backend.channel_messages
            /\ \A f \in DOMAIN backend \ {map} : after[f] = backend[f]
            /\ DOMAIN after[map] = DOMAIN backend[map] \ {ev.entity.id}
            /\ \A id \in DOMAIN after[map] : after[map][id] = backend[map][id]

\* C39 witness: a ChannelDelete just removed a stored channel, no channel
\* of that id is left, and a message of the channel, an attachment it lists
\* and the id in the channel's tracked set are still there.
C39_Witness ==
    /\ last = "ChannelDelete"
    /\ \A T \in LastMessageTypes : Get(backend, T, 1) = None
    /\ \E m \in DOMAIN backend.messages :
           /\ backend.messages[m].channel_id = 1
           /\ m \in ChannelMessages(backend, 1)
           /\ Listed(backend, m) \cap DOMAIN backend.attachments # {}

(***************************************************************************)
(* SpecTerminate: the handlers of cache.rs that loop over streams          *)
(* (GuildDelete with unavailable = false, MessageDelete and                *)
(* MessageDeleteBulk), one await per step.  `event` holds the call and the *)
(* position of the handler in it: the loop it is in (loop), whether it is  *)
(* opening the stream of the loop, reading it or collecting the removes    *)
(* (pc), and what is left of the open stream (stream).  `futures` holds    *)
(* the removes pushed so far.  Every repository operation resolves, to Ok  *)
(* or to Err.                                                              *)
(***************************************************************************)
MaxHandlerStored == 4

HandlerFills ==
    {[type |-> "GUILD", entity |-> [id |-> 1, name |-> "a", unavailable |-> FALSE]],
     [type |-> "EMOJI", entity |-> [id |-> 1, guild_id |-> 1]],
     [type |-> "ROLE", entity |-> [id |-> 1, guild_id |-> 1, name |-> "r"]],
     [type |-> "ATTACHMENT", entity |-> [id |-> 1, message_id |-> 1]],
     [type |-> "ATTACHMENT", entity |-> [id |-> 2, message_id |-> 1]],
     [type |-> "MESSAGE",
      entity |-> [id |-> 1, channel_id |-> 1, content |-> "x",
                  attachments |-> <<1, 2>>]],
     [type |-> "MESSAGE",
      entity |-> [id |-> 2, channel_id |-> 1, content |-> "y",
                  attachments |-> <<>>]]}

HandlerEvents ==
    EventsOf("GuildDelete", [id : {1}, unavailable : {FALSE}])
    \cup EventsOf("MessageDelete", [id : {1}])
    \cup EventsOf("MessageDeleteBulk", [ids : {<<1>>, <<1, 2>>}])

\* The number of streams the handler opens: channels, emoji_ids, member_ids,
\* presence_ids, role_ids and voice_state_ids of the guild; the attachments
\* of the message; the attachments of each id of self.ids.
LoopCount(ev) ==
    IF ev.name = "GuildDelete" THEN Len(DeleteStreams(NewBackend, ev))
    ELSE IF ev.name = "MessageDelete" THEN 1
    ELSE Len(ev.payload.ids)

\* The stream of loop k as the backend has it when the handler opens it,
\* each element as the remove the handler pushes for it.
OpenStream(b, ev, k) ==
    IF ev.name = "MessageDeleteBulk"
    THEN BulkWrites("remove", "ATTACHMENT", MessageAttachments(b, ev.payload.ids[k]))
    ELSE DeleteStreams(b, ev)[k]

\* Variant of a stream that never yields None.
StreamEndedNever(s) == FALSE

\* stream.next().await is None: a stream over a finite list of ids is at its
\* end when the list is used up.
StreamEnded(s) == s = <<>>

\* The removes the handler pushes on leaving loop k:
\* message_futures.push(cache.messages.remove(id)) in MessageDeleteBulk.
LeavePushes(ev) ==
    IF ev.name = "MessageDeleteBulk"
    THEN BulkWrites("remove", "MESSAGE", <<ev.payload.ids[ev.loop]>>)
    ELSE <<>>

\* The handler after loop k: at the next loop, or at try_collect.
AfterLoop(ev) ==
    [ev EXCEPT !.loop = @ + 1,
               !.pc = IF ev.loop + 1 > LoopCount(ev) THEN "collect" ELSE "open",
               !.stream = <<>>]

\* The removes try_collect polls now: attachment_futures is collected before
\* message_futures.
Pollable(ev, fs) ==
    {i \in 1..Len(fs) :
        /\ fs[i].status = "pending"
        /\ (ev.name = "MessageDeleteBulk" /\ fs[i].type = "MESSAGE")
               => \A j \in 1..Len(fs) :
                      fs[j].type = "ATTACHMENT" => fs[j].status # "pending"}

HandlerIdle == event = NoEvent \/ result.kind # "none"

\* An entity is stored while no event is in flight.
HandlerFill ==
    \E f \in HandlerFills :
        /\ HandlerIdle
        /\ backend' = Upsert(backend, f.type, f.entity)
        /\ backend' # backend
        /\ Stored(backend') <= MaxHandlerStored
        /\ last' = "upsert"
        /\ event' = NoEvent
        /\ futures' = <<>>
        /\ result' = NoResult
        /\ UNCHANGED <<config, created, lazy, before>>

\* process is called: the handler is at the first stream.
HandlerCall ==
    \E e \in HandlerEvents :
        /\ HandlerIdle
        /\ event' = [name |-> e.name, payload |-> e.payload,
                     pc |-> "open", loop |-> 1, stream |-> <<>>]
        /\ last' = e.name
        /\ futures' = <<>>
        /\ result' = NoResult
        /\ UNCHANGED <<backend, config, created, lazy, before>>

\* `let mut s = cache.<repo>.<children>(id).await?`: the future of the
\* stream resolves, to the stream or to an error that `?` returns.
HandlerOpen ==
    /\ event # NoEvent
    /\ result.kind = "none"
    /\ event.pc = "open"
    /\ \/ /\ event' = [event EXCEPT !.pc = "next",
                                    !.stream = OpenStream(backend, event, event.loop)]
          /\ UNCHANGED <<result, futures>>
       \/ /\ event' = [event EXCEPT !.pc = "done"]
          /\ result' = [kind |-> "Err", at |-> 0]
          /\ futures' = DropPending(futures)
    /\ UNCHANGED <<backend, config, last, created, lazy, before>>

\* `while let Some(Ok(x)) = s.next().await { futures.push(remove(x)) }`: the
\* stream yields an element and its remove is pushed.  A backend that writes
\* in the call has done so, or failed, by now.
HandlerNext ==
    /\ event # NoEvent
    /\ result.kind = "none"
    /\ event.pc = "next"
    /\ event.stream # <<>>
    /\ event' = [event EXCEPT !.stream = Tail(@)]
    /\ IF lazy
       THEN /\ futures' = Append(futures, Head(event.stream))
            /\ backend' = backend
       ELSE \E outcome \in {"done", "failed"} :
                /\ futures' = Append(futures,
                                     [Head(event.stream) EXCEPT !.status = outcome])
                /\ backend' = IF outcome = "done"
                              THEN ApplyWrite(backend, Head(event.stream))
                              ELSE backend
    /\ UNCHANGED <<config, last, created, result, lazy, before>>

\* The pattern Some(Ok(_)) does not match: the stream has ended (None), or
\* the read of an element that is left fails (Some(Err(_))).  The loop is
\* left and the handler goes on.
HandlerLeave ==
    /\ event # NoEvent
    /\ result.kind = "none"
    /\ event.pc = "next"
    /\ \/ StreamEnded(event.stream)
       \/ event.stream # <<>>
    /\ event' = AfterLoop(event)
    /\ LET fs == LeavePushes(event)
       IN  IF lazy \/ fs = <<>>
           THEN /\ futures' = futures \o fs
                /\ backend' = backend
           ELSE \E outcome \in {"done", "failed"} :
                    /\ futures' = Append(futures, [fs[1] EXCEPT !.status = outcome])
                    /\ backend' = IF outcome = "done"
                                  THEN ApplyWrite(backend, fs[1])
                                  ELSE backend
    /\ UNCHANGED <<config, last, created, result, lazy, before>>

\* try_collect polls a pending remove and it succeeds.
HandlerComplete ==
    \E i \in Pollable(event, futures) :
        /\ result.kind = "none"
        /\ event.pc = "collect"
        /\ futures' = [futures EXCEPT ![i].status = "done"]
        /\ backend' = ApplyWrite(backend, futures[i])
        /\ UNCHANGED <<config, last, created, result, lazy, before, event>>

\* try_collect polls a pending remove and it fails: the handler returns the
\* error and the removes still pending are dropped.
HandlerError ==
    \E i \in Pollable(event, futures) :
        /\ result.kind = "none"
        /\ event.pc = "collect"
        /\ futures' = DropPending([futures EXCEPT ![i].status = "failed"])
        /\ result' = [kind |-> "Err", at |-> i]
        /\ event' = [event EXCEPT !.pc = "done"]
        /\ UNCHANGED <<backend, config, last, created, lazy, before>>

\* Nothing is pending: try_collect resolves, to the error of a failed remove
\* if there is one; otherwise GuildDelete and MessageDelete remove the parent
\* and return what that remove returns, and MessageDeleteBulk returns Ok.
HandlerResolve ==
    /\ event # NoEvent
    /\ result.kind = "none"
    /\ event.pc = "collect"
    /\ \A i \in 1..Len(futures) : futures[i].status # "pending"
    /\ event' = [event EXCEPT !.pc = "done"]
    /\ LET failed == {i \in 1..Len(futures) : futures[i].status = "failed"}
       IN  IF failed # {}
           THEN /\ \E i \in failed : result' = [kind |-> "Err", at |-> i]
                /\ backend' = backend
           ELSE IF event.name = "MessageDeleteBulk"
           THEN /\ result' = [kind |-> "Ok", at |-> 0]
                /\ backend' = backend
           ELSE \/ /\ result' = [kind |-> "Ok", at |-> 0]
                   /\ backend' = ApplyWrite(backend, DeleteParent(event))
                \/ /\ result' = [kind |-> "Err", at |-> Len(futures) + 1]
                   /\ backend' = backend
    /\ UNCHANGED <<config, last, created, futures, lazy, before>>

\* The steps of a process future that is being awaited.
HandlerStep ==
    \/ HandlerOpen
    \/ HandlerNext
    \/ HandlerLeave
    \/ HandlerComplete
    \/ HandlerError
    \/ HandlerResolve

NextTerminate ==
    \/ HandlerFill
    \/ HandlerCall
    \/ HandlerOpen
    \/ HandlerNext
    \/ HandlerLeave
    \/ HandlerComplete
    \/ HandlerError
    \/ HandlerResolve

\* The caller awaits the future of process, so the executor polls it whenever
\* the operation it waits for has resolved, and every repository operation
\* resolves: a handler that can take a step takes one.
SpecTerminate == InitFail /\ [][NextTerminate]_vars /\ WF_vars(HandlerStep)

(***************************************************************************)
(* Properties of termination (checked under SpecTerminate).                *)
(***************************************************************************)
\* C40: every call of Cache::process eventually resolves when the payload is
\* finite and every repository operation resolves: the loops over the
\* children of a deleted guild and over the attachments of a deleted message
\* or of the messages of a bulk deletion terminate.
C40_ProcessResolves ==
    (event # NoEvent /\ result.kind = "none") ~> (result.kind # "none")

\* C40 witness: a bulk deletion has resolved to Ok after its loops read two
\* attachments and pushed four removes.
C40_Witness ==
    /\ event # NoEvent
    /\ event.name = "MessageDeleteBulk"
    /\ event.pc = "done"
    /\ result.kind = "Ok"
    /\ Len(futures) >= 4
    /\ \A i \in 1..Len(futures) : futures[i].status = "done"

====
